---------------------------- MODULE Spec2Model ----------------------------
(***************************************************************************)
(* A model of the Food Portal backend: the party-sheet cost breakdown      *)
(* (processCostBreakdown), the /api/upload handler that folds the          *)
(* breakdowns of a batch of documents, the product-name matcher            *)
(* (normalizeProductName, wordsSimilar, calculateSimilarity,               *)
(* matchProductName) and the matching loop of /api/vendor-costs.           *)
(*                                                                         *)
(* The repository holds two texts of the server: src/server.js and the     *)
(* later text recorded in src/.cursor/scratchpad.md (lines 496-1319),      *)
(* which adds the entertainment subtypes and the whole vendor-cost         *)
(* feature.  The model follows the later text.  src/server.js agrees with  *)
(* it statement for statement in the upload handler and in                 *)
(* processCostBreakdown, except that it has a single ENTERTAINMENT bucket  *)
(* and lets totals.entertainment override it.                              *)
(*                                                                         *)
(* Encodings.                                                              *)
(*  - A JavaScript string is a sequence of one-character strings; the      *)
(*    empty string is << >>.                                               *)
(*  - null (and undefined) where a string is expected is the value null    *)
(*    below, which is no sequence of characters.                           *)
(*  - An optional number (a field that may be undefined) is << >> or <<n>>.*)
(*  - Money is an integer count of 1/Cent cents, so that amounts below a   *)
(*    cent exist and toFixed(2) really rounds.                             *)
(*    Sums are exact, and no amount of the model stands halfway between    *)
(*    two cents, where the binary representation of a JavaScript number    *)
(*    decides which way toFixed(2) goes.                                   *)
(*  - A similarity score is the exact fraction num/den.                    *)
(***************************************************************************)
EXTENDS Integers, Sequences, FiniteSets, TLC

VARIABLES
    \* pure calls of matchProductName
    productName,        \* the candidate handed to matchProductName
    matched,            \* << >> before the call, <<result>> after it
    \* pure calls of calculateSimilarity, wordsSimilar and normalizeProductName
    simReference,       \* the reference name handed to calculateSimilarity
    simScore,           \* << >> before the call, <<result>> after it
    wsWord1,            \* the words handed to wordsSimilar
    wsWord2,
    wsResult,           \* << >> before the call, <<result>> after it
    normName,           \* the argument of normalizeProductName
    normResult,         \* << >> before the call, <<result>> after it
    \* pure calls of processCostBreakdown
    analysisResult,     \* the object returned by analyzePartySheet
    breakdown,          \* << >> before the call, <<result>> after it
    \* /api/upload
    upPc,               \* where the upload handler stands
    files,              \* req.files: the number of uploaded documents
    apiKey,             \* process.env.OPENAI_API_KEY is set
    fileIdx,            \* the document the for-loop is at
    analyses,           \* per document: << >> (analysis threw) or <<analysis>>
    results,            \* the results array
    unlinked,           \* documents whose temporary file fs.unlink was called on
    upResponse,         \* << >> or <<the response sent>>
    \* /api/vendor-costs
    vcPc,               \* where the vendor-cost handler stands
    referenceProducts,  \* names read from the reference sheet
    mappingRows,        \* rows of the mapping sheet: <<invoice name, reference name>>
    productMapping,     \* Map: normalized invoice name -> reference name
    allExtractedData,   \* observations read from the vendor files
    itemIdx,            \* the observation the forEach is at
    productsMap,        \* Map: matched product -> price history
    unmatchedItems,     \* observations no product was found for
    matchStats,         \* matched / unmatched / mapped / fuzzyMatched
    matchLog,           \* per observation, the product it was grouped under
    vcResponse,         \* << >> or <<the response sent>>
    \* pure calls of identifyExcelColumns
    sheetHeaders,       \* the headers of the sheet
    serviceOutcome,     \* what the column-identification service does
    identified,         \* << >> before the call, <<result>> after it
    \* the forEach callback of extractProductDataFromExcel on one row
    dateColumn,         \* columnMapping.dateColumn is set
    excelRow,           \* the cells of the row in the three mapped columns
    today,              \* the day the clock shows
    extractedData       \* << >> before the callback, <<the array>> after it

vars == <<productName, matched, simReference, simScore, wsWord1, wsWord2, wsResult, normName, normResult,
          analysisResult, breakdown,
          upPc, files, apiKey, fileIdx, analyses, results, unlinked, upResponse,
          vcPc, referenceProducts, mappingRows, productMapping, allExtractedData,
          itemIdx, productsMap, unmatchedItems, matchStats, matchLog, vcResponse,
          sheetHeaders, serviceOutcome, identified, dateColumn, excelRow, today, extractedData>>

matcherVars == <<productName, matched, simReference, simScore, wsWord1, wsWord2, wsResult,
                 normName, normResult>>
breakdownVars == <<analysisResult, breakdown>>
uploadVars == <<upPc, files, apiKey, fileIdx, analyses, results, unlinked, upResponse>>
vendorVars == <<vcPc, mappingRows, productMapping, allExtractedData,
                itemIdx, productsMap, unmatchedItems, matchStats, matchLog, vcResponse>>
columnVars == <<sheetHeaders, serviceOutcome, identified>>
rowVars == <<dateColumn, excelRow, today, extractedData>>
sheetVars == <<columnVars, rowVars>>

-----------------------------------------------------------------------------
(* Bounds of the model *)

MaxRefs == 2        \* reference products handed to matchProductName
MaxSheetRefs == 1   \* reference products read from the reference sheet
MaxMappings == 1    \* rows of the mapping sheet
MaxObs == 2         \* observations read from the vendor files
MaxSeriesObs == 3   \* observations of the vendor files that price series are built from
MaxManyObs == 52    \* observations of a vendor file most of which match no product
MaxItems == 2       \* line items of one analysis result
MaxFiles == 2       \* documents in one upload
MaxNameLen == 4     \* characters of a name handed to normalizeProductName
Cent == 10          \* money is counted in 1/Cent cents

-----------------------------------------------------------------------------
(* Generic helpers *)

null == <<"null">>

Min(a, b) == IF a <= b THEN a ELSE b
Max(a, b) == IF a >= b THEN a ELSE b

\* all sequences over S of length at most n
BoundedSeq(S, n) == UNION {[1..k -> S] : k \in 0..n}

RECURSIVE SumSeq(_)
SumSeq(s) == IF s = << >> THEN 0 ELSE Head(s) + SumSeq(Tail(s))

-----------------------------------------------------------------------------
(* Strings *)

UpperChars == <<"A", "B", "C", "D", "E", "F", "G", "H", "I", "J", "K", "L", "M",
                "N", "O", "P", "Q", "R", "S", "T", "U", "V", "W", "X", "Y", "Z">>
LowerChars == <<"a", "b", "c", "d", "e", "f", "g", "h", "i", "j", "k", "l", "m",
                "n", "o", "p", "q", "r", "s", "t", "u", "v", "w", "x", "y", "z">>
DigitChars == <<"0", "1", "2", "3", "4", "5", "6", "7", "8", "9">>

Range(f) == {f[i] : i \in DOMAIN f}
MinOf(S) == CHOOSE x \in S : \A y \in S : x <= y
MaxOf(S) == CHOOSE x \in S : \A y \in S : x >= y

\* \s of a regular expression
IsSpace(c) == c \in {" ", "\t", "\n"}

\* \w of a regular expression: [A-Za-z0-9_]
IsWordChar(c) ==
    c \in Range(UpperChars) \cup Range(LowerChars) \cup Range(DigitChars) \cup {"_"}

toLowerCaseChar(c) ==
    IF c \in Range(UpperChars)
    THEN LowerChars[CHOOSE i \in DOMAIN UpperChars : UpperChars[i] = c]
    ELSE c

\* String.prototype.toLowerCase
toLowerCase(s) == [i \in 1..Len(s) |-> toLowerCaseChar(s[i])]

\* String.prototype.trim: s between its first and its last character that is
\* no white space
Between(s, keep) == IF keep = {} THEN << >> ELSE SubSeq(s, MinOf(keep), MaxOf(keep))
trim(s) == Between(s, {i \in 1..Len(s) : ~IsSpace(s[i])})

StartsWith(s, p) == Len(p) <= Len(s) /\ SubSeq(s, 1, Len(p)) = p
EndsWith(s, p) == Len(p) <= Len(s) /\ SubSeq(s, Len(s) - Len(p) + 1, Len(s)) = p

\* String.prototype.includes
includes(s, p) == \E i \in 0..(Len(s) - Len(p)) : SubSeq(s, i + 1, i + Len(p)) = p

\* the alternatives of (the|a|an), in the order the expression tries them
Articles == << <<"t", "h", "e">>, <<"a">>, <<"a", "n">> >>

\* the last position of the run of white space that starts at position from
RunEnd(s, from) ==
    CHOOSE j \in from..Len(s) :
        /\ \A i \in from..j : IsSpace(s[i])
        /\ (j = Len(s) \/ ~IsSpace(s[j + 1]))

\* the first position of the run of white space that ends at position to
RunStart(s, to) ==
    CHOOSE j \in 1..to :
        /\ \A i \in j..to : IsSpace(s[i])
        /\ (j = 1 \/ ~IsSpace(s[j - 1]))

\* .replace(/^(the|a|an)\s+/, ''): the first alternative that white space
\* follows is removed together with the whole run of white space after it
CutLeading(s, fits) ==
    IF fits = {} THEN s
    ELSE SubSeq(s, RunEnd(s, Len(Articles[MinOf(fits)]) + 1) + 1, Len(s))
RemoveLeadingArticle(s) ==
    CutLeading(s, {k \in DOMAIN Articles :
                      /\ StartsWith(s, Articles[k])
                      /\ Len(s) > Len(Articles[k])
                      /\ IsSpace(s[Len(Articles[k]) + 1])})

\* .replace(/\s+(the|a|an)$/, ''): the leftmost match starts where the run of
\* white space before the final article starts
CutTrailing(s, fits) ==
    IF fits = {} THEN s
    ELSE SubSeq(s, 1, RunStart(s, Len(s) - Len(Articles[MinOf(fits)])) - 1)
RemoveTrailingArticle(s) ==
    CutTrailing(s, {k \in DOMAIN Articles :
                       /\ EndsWith(s, Articles[k])
                       /\ Len(s) > Len(Articles[k])
                       /\ IsSpace(s[Len(s) - Len(Articles[k])])})

\* .replace(/[^\w\s]/g, ' ')
ReplacePunctuation(s) ==
    [i \in 1..Len(s) |-> IF IsWordChar(s[i]) \/ IsSpace(s[i]) THEN s[i] ELSE " "]

\* .replace(/\s+/g, ' '): every run of white space becomes one space
RECURSIVE CollapseWhitespace(_)
CollapseWhitespace(s) ==
    IF s = << >> THEN << >>
    ELSE IF IsSpace(Head(s))
         THEN IF Len(s) > 1 /\ IsSpace(s[2])
              THEN CollapseWhitespace(Tail(s))
              ELSE <<" ">> \o CollapseWhitespace(Tail(s))
         ELSE <<Head(s)>> \o CollapseWhitespace(Tail(s))

\* normalizeProductName without its last trim
normalizeProductNameUntrimmed(name) ==
    IF name = null \/ name = << >> THEN << >>
    ELSE CollapseWhitespace(ReplacePunctuation(
            RemoveTrailingArticle(RemoveLeadingArticle(trim(toLowerCase(name))))))

normalizeProductName(name) ==
    IF name = null \/ name = << >> THEN << >>
    ELSE trim(CollapseWhitespace(ReplacePunctuation(
            RemoveTrailingArticle(RemoveLeadingArticle(trim(toLowerCase(name)))))))

\* String.prototype.split(/\s+/)
RECURSIVE SplitAt(_, _)
SplitAt(s, cur) ==
    IF s = << >> THEN <<cur>>
    ELSE IF IsSpace(Head(s))
         THEN IF Len(s) > 1 /\ IsSpace(s[2])
              THEN SplitAt(Tail(s), cur)
              ELSE <<cur>> \o SplitAt(Tail(s), << >>)
         ELSE SplitAt(Tail(s), Append(cur, Head(s)))

split(s) == SplitAt(s, << >>)

\* normalizeProductName(name).split(/\s+/).filter(w => w.length > 1)
Words(name) == SelectSeq(split(normalizeProductName(name)), LAMBDA w : Len(w) > 1)

-----------------------------------------------------------------------------
(* The product-name matcher *)

\* word.replace(/s$/, '')
StripTrailingS(w) ==
    IF Len(w) > 0 /\ w[Len(w)] = "s" THEN SubSeq(w, 1, Len(w) - 1) ELSE w

\* the table of wordsSimilar: each key with its variants
variations ==
    << << <<"w", "i", "n", "g">>, {<<"w", "i", "n", "g", "s">>} >>,
       << <<"p", "r", "e", "t", "z", "e", "l">>, {<<"p", "r", "e", "t", "z", "e", "l", "s">>} >>,
       << <<"b", "i", "t", "e">>, {<<"b", "i", "t", "e", "s">>} >>,
       << <<"t", "e", "n", "d", "e", "r">>, {<<"t", "e", "n", "d", "e", "r", "s">>} >>,
       << <<"c", "h", "i", "c", "k", "e", "n">>, {<<"c", "h", "i", "c", "k", "e", "n", "s">>} >>,
       << <<"b", "e", "e", "f">>, {<<"b", "e", "e", "f", "s">>} >>,
       << <<"p", "o", "r", "k">>, {<<"p", "o", "r", "k", "s">>} >> >>

\* wordsSimilar with the containment rule looking for word2 in word1 only
SimilarGivenOneWay(word1, word2, singular1, singular2) ==
    \/ word1 = word2
    \/ singular1 = word2 \/ word1 = singular2 \/ singular1 = singular2
    \/ \E k \in DOMAIN variations :
          \/ word1 = variations[k][1] /\ word2 \in variations[k][2]
          \/ word2 = variations[k][1] /\ word1 \in variations[k][2]
    \/ /\ Len(word1) > 3 /\ Len(word2) > 3
       /\ includes(word1, word2)

\* wordsSimilar with the containment rule applied to words of any length
SimilarGivenAnyLength(word1, word2, singular1, singular2) ==
    \/ word1 = word2
    \/ singular1 = word2 \/ word1 = singular2 \/ singular1 = singular2
    \/ \E k \in DOMAIN variations :
          \/ word1 = variations[k][1] /\ word2 \in variations[k][2]
          \/ word2 = variations[k][1] /\ word1 \in variations[k][2]
    \/ includes(word1, word2) \/ includes(word2, word1)

SimilarGiven(word1, word2, singular1, singular2) ==
    \/ word1 = word2
    \/ singular1 = word2 \/ word1 = singular2 \/ singular1 = singular2
    \/ \E k \in DOMAIN variations :
          \/ word1 = variations[k][1] /\ word2 \in variations[k][2]
          \/ word2 = variations[k][1] /\ word1 \in variations[k][2]
    \/ /\ Len(word1) > 3 /\ Len(word2) > 3
       /\ (includes(word1, word2) \/ includes(word2, word1))

wordsSimilar(word1, word2) ==
    SimilarGiven(word1, word2, StripTrailingS(word1), StripTrailingS(word2))

\* a score is the fraction num/den, den > 0
ScoreGE(a, b) == a.num * b.den >= b.num * a.den
ScoreGT(a, b) == a.num * b.den > b.num * a.den
Percent(n) == [num |-> n, den |-> 1]

\* the score without Math.min
WordScoreUncapped(matches, totalWords, substringScore) ==
    [num |-> 80 * matches + substringScore * totalWords, den |-> totalWords]

\* Math.min(100, (matches / totalWords) * 80 + substringScore)
WordScore(matches, totalWords, substringScore) ==
    [num |-> Min(100 * totalWords, 80 * matches + substringScore * totalWords),
     den |-> totalWords]

\* calculateSimilarity without its exact-match return
ScoreGivenNoExact(productWords, refWords, normalizedProduct, normalizedRef) ==
    IF Len(productWords) = 0 \/ Len(refWords) = 0 THEN Percent(0)
    ELSE WordScore(Cardinality({p \in (DOMAIN productWords) \X (DOMAIN refWords) :
                                   wordsSimilar(productWords[p[1]], refWords[p[2]])}),
                   Max(Len(productWords), Len(refWords)),
                   IF includes(normalizedProduct, normalizedRef)
                      \/ includes(normalizedRef, normalizedProduct)
                   THEN 15 ELSE 0)

ScoreGiven(productWords, refWords, normalizedProduct, normalizedRef) ==
    IF Len(productWords) = 0 \/ Len(refWords) = 0 THEN Percent(0)
    ELSE IF normalizedProduct = normalizedRef THEN Percent(100)
    ELSE WordScore(Cardinality({p \in (DOMAIN productWords) \X (DOMAIN refWords) :
                                   wordsSimilar(productWords[p[1]], refWords[p[2]])}),
                   Max(Len(productWords), Len(refWords)),
                   IF includes(normalizedProduct, normalizedRef)
                      \/ includes(normalizedRef, normalizedProduct)
                   THEN 15 ELSE 0)

calculateSimilarity(candidate, referenceName) ==
    ScoreGiven(Words(candidate), Words(referenceName),
               normalizeProductName(candidate), normalizeProductName(referenceName))

\* SortByScore with the comparator turned round (a.score - b.score)
RECURSIVE InsertByScoreAscending(_, _)
InsertByScoreAscending(sorted, e) ==
    IF sorted = << >> THEN <<e>>
    ELSE IF ScoreGE(e.score, Head(sorted).score)
         THEN <<Head(sorted)>> \o InsertByScoreAscending(Tail(sorted), e)
         ELSE <<e>> \o sorted

RECURSIVE SortByScoreAscending(_)
SortByScoreAscending(scores) ==
    IF scores = << >> THEN << >>
    ELSE InsertByScoreAscending(SortByScoreAscending(SubSeq(scores, 1, Len(scores) - 1)),
                                scores[Len(scores)])

\* a sort by descending score that puts a later entry before its equals
RECURSIVE InsertByScoreUnstable(_, _)
InsertByScoreUnstable(sorted, e) ==
    IF sorted = << >> THEN <<e>>
    ELSE IF ScoreGT(Head(sorted).score, e.score)
         THEN <<Head(sorted)>> \o InsertByScoreUnstable(Tail(sorted), e)
         ELSE <<e>> \o sorted

\* Array.prototype.sort((a, b) => b.score - a.score): stable, highest score first
RECURSIVE InsertByScore(_, _)
InsertByScore(sorted, e) ==
    IF sorted = << >> THEN <<e>>
    ELSE IF ScoreGE(Head(sorted).score, e.score)
         THEN <<Head(sorted)>> \o InsertByScore(Tail(sorted), e)
         ELSE <<e>> \o sorted

RECURSIVE SortByScore(_)
SortByScore(scores) ==
    IF scores = << >> THEN << >>
    ELSE InsertByScore(SortByScore(SubSeq(scores, 1, Len(scores) - 1)), scores[Len(scores)])

\* the threshold of matchProductName
Threshold == 30

\* a JavaScript string or null used as a condition
Truthy(v) == v # null /\ v # << >>

\* referenceProducts.find(ref => normalizeProductName(ref) === normalized)
FirstOf(refs, found) == IF found = {} THEN null ELSE refs[MinOf(found)]
FindExact(refs, normalized) ==
    FirstOf(refs, {i \in DOMAIN refs : normalizeProductName(refs[i]) = normalized})

\* referenceProducts.map(ref => ({product: ref, score: calculateSimilarity(productName, ref)}))
ScoresOf(candidate, refs) ==
    [i \in DOMAIN refs |->
        [product |-> refs[i], score |-> calculateSimilarity(candidate, refs[i])]]

BestAboveThreshold(scores) ==
    IF Len(scores) > 0 /\ ScoreGE(scores[1].score, Percent(Threshold))
    THEN scores[1].product
    ELSE null

ExactOrBest(exactMatch, candidate, refs) ==
    IF Truthy(exactMatch) THEN exactMatch
    ELSE BestAboveThreshold(SortByScore(ScoresOf(candidate, refs)))

\* matchProductName without its exact-match step
matchProductNameFuzzyOnly(candidate, refs) ==
    IF ~Truthy(candidate) \/ refs = << >> THEN null
    ELSE BestAboveThreshold(SortByScore(ScoresOf(candidate, refs)))

matchProductName(candidate, refs) ==
    IF ~Truthy(candidate) \/ refs = << >> THEN null
    ELSE ExactOrBest(FindExact(refs, normalizeProductName(candidate)), candidate, refs)

-----------------------------------------------------------------------------
(* The names the inputs are drawn from: each is trimmed and not empty, as the
   handlers make them before they reach the matcher *)

nChickenTenders == <<"C", "h", "i", "c", "k", "e", "n", " ", "T", "e", "n", "d", "e", "r", "s">>
nChickenTendersBang == <<"c", "h", "i", "c", "k", "e", "n", " ", "t", "e", "n", "d", "e", "r", "s", "!">>
nTender == <<"T", "e", "n", "d", "e", "r">>
nTheWings == <<"T", "h", "e", " ", "W", "i", "n", "g", "s">>
nWings == <<"W", "i", "n", "g", "s">>
nNapkins == <<"N", "a", "p", "k", "i", "n", "s">>
nBeefBrisket == <<"B", "e", "e", "f", " ", "B", "r", "i", "s", "k", "e", "t">>
nTndrs == <<"T", "n", "d", "r", "s">>
nChickenWings == <<"C", "h", "i", "c", "k", "e", "n", " ", "W", "i", "n", "g", "s">>
nBeefWingsTenderSauce == <<"B", "e", "e", "f", " ", "W", "i", "n", "g", "s", " ", "T", "e", "n", "d", "e", "r", " ", "S", "a", "u", "c", "e">>
nNotAvailable == <<"N", "/", "A">>
nNDashA == <<"n", "-", "a">>

nWingWings == <<"w", "i", "n", "g", " ", "w", "i", "n", "g", "s">>
nWingsWing == <<"w", "i", "n", "g", "s", " ", "w", "i", "n", "g">>
nChickTenders == <<"c", "h", "i", "c", "k", " ", "t", "e", "n", "d", "e", "r", "s">>

CandidateNames == {nChickenTenders, nChickenTendersBang, nTender, nTheWings, nWings,
                   nNapkins, nBeefBrisket, nTndrs, nBeefWingsTenderSauce, nNDashA}
ReferenceNames == {nChickenTenders, nChickenTendersBang, nWings, nChickenWings,
                   nBeefBrisket, nNotAvailable}

\* what the vendor files, the reference sheet and the mapping sheet hold
ObservedNames == {nWings, nTndrs, nTender}
SheetReferenceNames == {nChickenTenders, nWings}
MappingSheetRows == {<<nTndrs, nChickenTenders>>, <<nTheWings, nBeefBrisket>>}
Observations ==
    [productName : ObservedNames, unitPrice : {250 * Cent}, date : {1}, sourceFile : {1}]

-----------------------------------------------------------------------------
(* Values of the variables a specification does not use *)

PureCallsIdle ==
    /\ simReference = null /\ simScore = << >>
    /\ wsWord1 = << >> /\ wsWord2 = << >> /\ wsResult = << >>
    /\ normName = null /\ normResult = << >>
MatcherIdle == productName = null /\ matched = << >> /\ PureCallsIdle
BreakdownIdle == analysisResult = << >> /\ breakdown = << >>
UploadIdle ==
    /\ upPc = "idle" /\ files = 0 /\ apiKey = FALSE /\ fileIdx = 0 /\ analyses = << >>
    /\ results = << >> /\ unlinked = {} /\ upResponse = << >>
VendorIdle ==
    /\ vcPc = "idle" /\ mappingRows = << >> /\ productMapping = << >>
    /\ allExtractedData = << >> /\ itemIdx = 0 /\ productsMap = << >>
    /\ unmatchedItems = << >> /\ matchStats = << >> /\ matchLog = << >>
    /\ vcResponse = << >>
ColumnsIdle == sheetHeaders = << >> /\ serviceOutcome = << >> /\ identified = << >>
RowIdle == dateColumn = FALSE /\ excelRow = << >> /\ today = << >> /\ extractedData = << >>
SheetIdle == ColumnsIdle /\ RowIdle

-----------------------------------------------------------------------------
(* matchProductName, called on its own *)

InitMatcher ==
    /\ productName \in CandidateNames
    /\ referenceProducts \in BoundedSeq(ReferenceNames, MaxRefs)
    /\ matched = << >>
    /\ PureCallsIdle
    /\ BreakdownIdle /\ UploadIdle /\ VendorIdle /\ SheetIdle

CallMatchProductName ==
    /\ matched = << >>
    /\ matched' = <<matchProductName(productName, referenceProducts)>>
    /\ UNCHANGED <<productName, referenceProducts, simReference, simScore, wsWord1, wsWord2, wsResult,
                   normName, normResult, breakdownVars, uploadVars, vendorVars, sheetVars>>

NextMatcher == CallMatchProductName

SpecMatcher == InitMatcher /\ [][NextMatcher]_vars

-----------------------------------------------------------------------------
(* calculateSimilarity, wordsSimilar and normalizeProductName, called on their own *)

\* the names calculateSimilarity is called on
SimilarityNames ==
    CandidateNames \cup ReferenceNames \cup {nWingWings, nWingsWing, nChickTenders}

InitSimilarity ==
    /\ productName \in SimilarityNames
    /\ simReference \in SimilarityNames
    /\ simScore = << >>
    /\ matched = << >>
    /\ wsWord1 = << >> /\ wsWord2 = << >> /\ wsResult = << >>
    /\ normName = null /\ normResult = << >>
    /\ referenceProducts = << >>
    /\ BreakdownIdle /\ UploadIdle /\ VendorIdle /\ SheetIdle

CallCalculateSimilarity ==
    /\ simScore = << >>
    /\ simScore' = <<calculateSimilarity(productName, simReference)>>
    /\ UNCHANGED <<productName, matched, simReference, wsWord1, wsWord2, wsResult, normName,
                   normResult, referenceProducts, breakdownVars, uploadVars, vendorVars, sheetVars>>

NextSimilarity == CallCalculateSimilarity

SpecSimilarity == InitSimilarity /\ [][NextSimilarity]_vars

\* the words wordsSimilar is called on
WordInputs ==
    {<<"w", "i", "n", "g">>, <<"w", "i", "n", "g", "s">>, <<"w", "i", "n", "g", "s", "s">>,
     <<"t", "e", "n", "d", "e", "r">>, <<"t", "e", "n", "d", "e", "r", "s">>,
     <<"c", "h", "i", "c", "k">>, <<"c", "h", "i", "c", "k", "e", "n">>,
     <<"b", "e", "e">>, <<"b", "e", "e", "f">>, <<"b", "e", "e", "f", "s">>,
     <<"a", "s">>, <<"a">>, <<"p", "o", "r", "k">>}

InitWordsSimilar ==
    /\ wsWord1 \in WordInputs
    /\ wsWord2 \in WordInputs
    /\ wsResult = << >>
    /\ productName = null /\ matched = << >>
    /\ simReference = null /\ simScore = << >>
    /\ normName = null /\ normResult = << >>
    /\ referenceProducts = << >>
    /\ BreakdownIdle /\ UploadIdle /\ VendorIdle /\ SheetIdle

CallWordsSimilar ==
    /\ wsResult = << >>
    /\ wsResult' = <<wordsSimilar(wsWord1, wsWord2)>>
    /\ UNCHANGED <<productName, matched, simReference, simScore, wsWord1, wsWord2, normName,
                   normResult, referenceProducts, breakdownVars, uploadVars, vendorVars, sheetVars>>

NextWordsSimilar == CallWordsSimilar

SpecWordsSimilar == InitWordsSimilar /\ [][NextWordsSimilar]_vars

\* the arguments normalizeProductName is called on: null, and every string of
\* at most MaxNameLen of these characters
NameChars == {"A", "n", " ", "-", "_", "7"}
NameInputs == {null} \cup BoundedSeq(NameChars, MaxNameLen)

InitNormalize ==
    /\ normName \in NameInputs
    /\ normResult = << >>
    /\ productName = null /\ matched = << >>
    /\ simReference = null /\ simScore = << >>
    /\ wsWord1 = << >> /\ wsWord2 = << >> /\ wsResult = << >>
    /\ referenceProducts = << >>
    /\ BreakdownIdle /\ UploadIdle /\ VendorIdle /\ SheetIdle

CallNormalizeProductName ==
    /\ normResult = << >>
    /\ normResult' = <<normalizeProductName(normName)>>
    /\ UNCHANGED <<productName, matched, simReference, simScore, wsWord1, wsWord2, wsResult,
                   normName, referenceProducts, breakdownVars, uploadVars, vendorVars, sheetVars>>

NextNormalize == CallNormalizeProductName

SpecNormalize == InitNormalize /\ [][NextNormalize]_vars

-----------------------------------------------------------------------------
(* POST /api/vendor-costs: the mapping sheet and the matching loop *)

\* Map.prototype.set
MapSet(m, k, v) == [x \in (DOMAIN m) \cup {k} |-> IF x = k THEN v ELSE m[x]]

\* the mapping sheet's forEach: productMapping.set(normalizeProductName(invoiceName), refName)
RECURSIVE BuildProductMapping(_, _)
BuildProductMapping(m, rows) ==
    IF rows = << >> THEN m
    ELSE BuildProductMapping(MapSet(m, normalizeProductName(Head(rows)[1]), Head(rows)[2]),
                             Tail(rows))

InitVendor ==
    /\ vcPc = "mapping"
    /\ referenceProducts \in BoundedSeq(SheetReferenceNames, MaxSheetRefs)
    /\ mappingRows \in BoundedSeq(MappingSheetRows, MaxMappings)
    /\ allExtractedData \in BoundedSeq(Observations, MaxObs)
    /\ productMapping = << >>
    /\ itemIdx = 1
    /\ productsMap = << >>
    /\ unmatchedItems = << >>
    /\ matchStats = [matched |-> 0, unmatched |-> 0, mapped |-> 0, fuzzyMatched |-> 0]
    /\ matchLog = << >>
    /\ vcResponse = << >>
    /\ MatcherIdle /\ BreakdownIdle /\ UploadIdle /\ SheetIdle

\* the mapping sheet is read and turned into productMapping; when reading it
\* throws, the handler goes on without any mapping
VcProcessMappingSheet ==
    /\ vcPc = "mapping"
    /\ \/ productMapping' = BuildProductMapping(<< >>, mappingRows)
       \/ mappingRows # << >> /\ productMapping' = << >>
    /\ vcPc' = "match"
    /\ UNCHANGED <<referenceProducts, mappingRows, allExtractedData, itemIdx, productsMap,
                   unmatchedItems, matchStats, matchLog, vcResponse, matcherVars, breakdownVars,
                   uploadVars, sheetVars>>

\* the product one observation is grouped under: the mapping table's entry for
\* the normalized invoice name when there is one, matchProductName's otherwise
LookupOrMatch(normalizedInvoiceName, item, mapping, refs) ==
    IF normalizedInvoiceName \in DOMAIN mapping
    THEN mapping[normalizedInvoiceName]
    ELSE matchProductName(item.productName, refs)

\* MatchedProduct without the mapping table
MatchedProductByMatcher(item, mapping, refs) == matchProductName(item.productName, refs)

MatchedProduct(item, mapping, refs) ==
    LookupOrMatch(normalizeProductName(item.productName), item, mapping, refs)

\* productsMap.get(matchedProduct).push({date, price, sourceFile})
PushPrice(map, product, item) ==
    MapSet(map, product,
           Append(IF product \in DOMAIN map THEN map[product] ELSE << >>,
                  [date |-> item.date, price |-> item.unitPrice,
                   sourceFile |-> item.sourceFile]))

\* matchStats with every matched observation counted as fuzzy-matched
CountMatchFuzzyAlways(stats, isMapped, isMatched) ==
    [matched |-> stats.matched + (IF isMatched THEN 1 ELSE 0),
     unmatched |-> stats.unmatched + (IF isMatched THEN 0 ELSE 1),
     mapped |-> stats.mapped + (IF isMapped THEN 1 ELSE 0),
     fuzzyMatched |-> stats.fuzzyMatched + (IF isMatched THEN 1 ELSE 0)]

\* matchStats after one observation
CountMatch(stats, isMapped, isMatched) ==
    [matched |-> stats.matched + (IF isMatched THEN 1 ELSE 0),
     unmatched |-> stats.unmatched + (IF isMatched THEN 0 ELSE 1),
     mapped |-> stats.mapped + (IF isMapped THEN 1 ELSE 0),
     fuzzyMatched |-> stats.fuzzyMatched + (IF ~isMapped /\ isMatched THEN 1 ELSE 0)]

\* one round of allExtractedData.forEach
VcMatchItem ==
    /\ vcPc = "match"
    /\ itemIdx <= Len(allExtractedData)
    /\ \E item \in {allExtractedData[itemIdx]} :
       \E matchedProduct \in {MatchedProduct(item, productMapping, referenceProducts)} :
       \E isMapped \in {normalizeProductName(item.productName) \in DOMAIN productMapping} :
          /\ IF Truthy(matchedProduct)
             THEN /\ productsMap' = PushPrice(productsMap, matchedProduct, item)
                  /\ UNCHANGED unmatchedItems
             ELSE /\ unmatchedItems' = Append(unmatchedItems,
                         [productName |-> item.productName, price |-> item.unitPrice,
                          date |-> item.date, sourceFile |-> item.sourceFile])
                  /\ UNCHANGED productsMap
          /\ matchStats' = CountMatch(matchStats, isMapped, Truthy(matchedProduct))
          /\ matchLog' = Append(matchLog, matchedProduct)
    /\ itemIdx' = itemIdx + 1
    /\ UNCHANGED <<vcPc, referenceProducts, mappingRows, productMapping, allExtractedData,
                   vcResponse, matcherVars, breakdownVars, uploadVars, sheetVars>>

\* the forEach has gone through every observation
VcEndMatching ==
    /\ vcPc = "match"
    /\ itemIdx > Len(allExtractedData)
    /\ vcPc' = "matched"
    /\ UNCHANGED <<referenceProducts, mappingRows, productMapping, allExtractedData, itemIdx,
                   productsMap, unmatchedItems, matchStats, matchLog, vcResponse,
                   matcherVars, breakdownVars, uploadVars, sheetVars>>

-----------------------------------------------------------------------------
(* processCostBreakdown *)

\* parseFloat(x.toFixed(2)): x rounded to whole cents, halves away from zero
toFixed2(x) ==
    IF x >= 0 THEN ((2 * x + Cent) \div (2 * Cent)) * Cent
    ELSE 0 - ((2 * (0 - x) + Cent) \div (2 * Cent)) * Cent

\* the categories the forEach has a branch for
FoodCategories == {"FOOD"}
DrinksCategories == {"DRINKS"}
BowlingCategories == {"BOWLING"}
DartsCategories == {"DARTS"}
MiniGolfCategories == {"MINI_GOLF"}
ShuffleboardCategories == {"SHUFFLEBOARD"}
KaraokeCategories == {"KARAOKE"}
OtherEntertainmentCategories == {"OTHER_ENTERTAINMENT", "ENTERTAINMENT"}
BookingFeeCategories == {"BOOKING_FEE"}

\* item.total || 0
Amount(item) == IF item.total = << >> THEN 0 ELSE item.total[1]

\* what the forEach adds up for the branch of the categories cats
CategoryTotal(lineItems, cats) ==
    SumSeq([i \in DOMAIN lineItems |->
               IF lineItems[i].category \in cats THEN Amount(lineItems[i]) ELSE 0])

\* analysisResult.lineItems when it is an array, nothing otherwise
ItemsOf(a) == IF a.lineItems = << >> THEN << >> ELSE a.lineItems[1]

\* the forEach with an else-branch that books every other category as other
\* entertainment
LineItemTotalsCatchAll(lineItems) ==
    [food |-> CategoryTotal(lineItems, FoodCategories),
     drinks |-> CategoryTotal(lineItems, DrinksCategories),
     bowling |-> CategoryTotal(lineItems, BowlingCategories),
     darts |-> CategoryTotal(lineItems, DartsCategories),
     miniGolf |-> CategoryTotal(lineItems, MiniGolfCategories),
     shuffleboard |-> CategoryTotal(lineItems, ShuffleboardCategories),
     karaoke |-> CategoryTotal(lineItems, KaraokeCategories),
     otherEntertainment |->
        CategoryTotal(lineItems, {lineItems[i].category : i \in DOMAIN lineItems}
                                    \ (FoodCategories \cup DrinksCategories
                                       \cup BowlingCategories \cup DartsCategories
                                       \cup MiniGolfCategories \cup ShuffleboardCategories
                                       \cup KaraokeCategories \cup BookingFeeCategories)),
     bookingFee |-> CategoryTotal(lineItems, BookingFeeCategories)]

\* the nine running totals after the forEach over the line items
LineItemTotals(lineItems) ==
    [food |-> CategoryTotal(lineItems, FoodCategories),
     drinks |-> CategoryTotal(lineItems, DrinksCategories),
     bowling |-> CategoryTotal(lineItems, BowlingCategories),
     darts |-> CategoryTotal(lineItems, DartsCategories),
     miniGolf |-> CategoryTotal(lineItems, MiniGolfCategories),
     shuffleboard |-> CategoryTotal(lineItems, ShuffleboardCategories),
     karaoke |-> CategoryTotal(lineItems, KaraokeCategories),
     otherEntertainment |-> CategoryTotal(lineItems, OtherEntertainmentCategories),
     bookingFee |-> CategoryTotal(lineItems, BookingFeeCategories)]

\* analysisResult.preloadedDrinks && analysisResult.preloadedDrinks.total
HasPreloadedTotal(a) ==
    /\ a.preloadedDrinks # << >>
    /\ a.preloadedDrinks[1].total # << >>
    /\ a.preloadedDrinks[1].total[1] # 0

PreloadedAmount(a) == a.preloadedDrinks[1].total[1]

\* the preloaded-drinks step without the addition to the drinks
AfterPreloadedFoodOnly(t, a) ==
    IF HasPreloadedTotal(a)
    THEN [t EXCEPT !.food = Max(0, t.food - PreloadedAmount(a))]
    ELSE t

\* the preloaded-drinks step without Math.max
AfterPreloadedUnclamped(t, a) ==
    IF HasPreloadedTotal(a)
    THEN [t EXCEPT !.food = t.food - PreloadedAmount(a),
                   !.drinks = t.drinks + PreloadedAmount(a)]
    ELSE t

\* the preloaded drinks are taken from the food and added to the drinks
AfterPreloaded(t, a) ==
    IF HasPreloadedTotal(a)
    THEN [t EXCEPT !.food = Max(0, t.food - PreloadedAmount(a)),
                   !.drinks = t.drinks + PreloadedAmount(a)]
    ELSE t

\* the entertainment total without the other entertainment
EntertainmentOfNamedGames(t) ==
    t.bowling + t.darts + t.miniGolf + t.shuffleboard + t.karaoke

\* bowling + darts + miniGolf + shuffleboard + karaoke + otherEntertainment
EntertainmentOf(t) ==
    t.bowling + t.darts + t.miniGolf + t.shuffleboard + t.karaoke + t.otherEntertainment

\* totals given directly replace the food, drinks and booking-fee totals
Overridden(current, given) == IF given = << >> THEN current ELSE given[1]
AfterLegacyTotals(t, a) ==
    IF a.totals = << >> THEN t
    ELSE [t EXCEPT !.food = Overridden(t.food, a.totals[1].food),
                   !.drinks = Overridden(t.drinks, a.totals[1].drinks),
                   !.bookingFee = Overridden(t.bookingFee, a.totals[1].bookingFee)]

\* the running totals when the grand total is computed
FinalTotals(a) == AfterLegacyTotals(AfterPreloaded(LineItemTotals(ItemsOf(a)), a), a)

\* the grand total taken before the totals given directly are applied
GrandTotalBeforeLegacy(t, a) ==
    AfterPreloaded(LineItemTotals(ItemsOf(a)), a).food
    + AfterPreloaded(LineItemTotals(ItemsOf(a)), a).drinks
    + EntertainmentOf(t) + LineItemTotals(ItemsOf(a)).bookingFee

\* foodTotal + drinksTotal + entertainmentTotal + bookingFeeTotal
GrandTotal(t, a) == t.food + t.drinks + EntertainmentOf(t) + t.bookingFee

\* the returned object
Returned(t, a) ==
    [food |-> toFixed2(t.food),
     drinks |-> toFixed2(t.drinks),
     bowling |-> toFixed2(t.bowling),
     darts |-> toFixed2(t.darts),
     miniGolf |-> toFixed2(t.miniGolf),
     shuffleboard |-> toFixed2(t.shuffleboard),
     karaoke |-> toFixed2(t.karaoke),
     otherEntertainment |-> toFixed2(t.otherEntertainment),
     entertainment |-> toFixed2(EntertainmentOf(t)),
     bookingFee |-> toFixed2(t.bookingFee),
     grandTotal |-> toFixed2(GrandTotal(t, a)),
     lineItems |-> ItemsOf(a),
     preloadedDrinks |-> a.preloadedDrinks]

processCostBreakdown(a) == Returned(FinalTotals(a), a)

\* the analysis results processCostBreakdown is called on
Categories ==
    {"FOOD", "DRINKS", "BOWLING", "DARTS", "MINI_GOLF", "SHUFFLEBOARD", "KARAOKE",
     "OTHER_ENTERTAINMENT", "BOOKING_FEE", "ENTERTAINMENT", "GRATUITY", ""}
LineItems ==
    [category : Categories, total : {<<30 * Cent>>}]
    \cup [category : {"FOOD", "DRINKS", "BOWLING", "BOOKING_FEE"}, total : {<<4>>}]
    \cup [category : {"FOOD"}, total : {<< >>, <<0 - 6>>}]
PreloadedDrinks ==
    {<< >>} \cup {<<[total |-> t]>> : t \in {<< >>, <<0>>, <<10 * Cent>>, <<50 * Cent>>}}
LegacyTotals ==
    {<< >>} \cup {<<r>> : r \in [food : {<< >>, <<7 * Cent>>, <<0 - 3 * Cent>>},
                                drinks : {<< >>, <<9 * Cent>>},
                                bookingFee : {<< >>, <<0>>}]}
AnalysisResults ==
    [lineItems : {<< >>} \cup {<<l>> : l \in BoundedSeq(LineItems, MaxItems)},
     preloadedDrinks : PreloadedDrinks,
     totals : LegacyTotals]

-----------------------------------------------------------------------------
(* processCostBreakdown, called on its own *)

InitBreakdown ==
    /\ analysisResult \in AnalysisResults
    /\ breakdown = << >>
    /\ referenceProducts = << >>
    /\ MatcherIdle /\ UploadIdle /\ VendorIdle /\ SheetIdle

CallProcessCostBreakdown ==
    /\ breakdown = << >>
    /\ breakdown' = <<processCostBreakdown(analysisResult)>>
    /\ UNCHANGED <<analysisResult, referenceProducts, matcherVars, uploadVars, vendorVars, sheetVars>>

NextBreakdown == CallProcessCostBreakdown

SpecBreakdown == InitBreakdown /\ [][NextBreakdown]_vars

-----------------------------------------------------------------------------
(* POST /api/upload *)

\* what analyzePartySheet returns for the documents of a batch
UploadAnalyses ==
    {[lineItems |-> << <<[category |-> "FOOD", total |-> <<4>>]>> >>,
      preloadedDrinks |-> << >>, totals |-> << >>],
     [lineItems |-> << <<[category |-> "FOOD", total |-> <<30 * Cent>>],
                         [category |-> "DRINKS", total |-> <<4>>]>> >>,
      preloadedDrinks |-> <<[total |-> <<10 * Cent>>]>>, totals |-> << >>],
     [lineItems |-> << <<[category |-> "BOWLING", total |-> <<4>>],
                         [category |-> "BOOKING_FEE", total |-> <<30 * Cent>>]>> >>,
      preloadedDrinks |-> << >>, totals |-> << >>],
     [lineItems |-> << <<[category |-> "KARAOKE", total |-> <<30 * Cent>>]>> >>,
      preloadedDrinks |-> << >>,
      totals |-> <<[food |-> <<7 * Cent>>, drinks |-> << >>, bookingFee |-> << >>]>>],
     [lineItems |-> << <<[category |-> "FOOD", total |-> <<4>>],
                         [category |-> "DRINKS", total |-> <<4>>]>> >>,
      preloadedDrinks |-> << >>, totals |-> << >>],
     [lineItems |-> << <<[category |-> "FOOD", total |-> <<30 * Cent>>],
                         [category |-> "BOWLING", total |-> <<30 * Cent>>],
                         [category |-> "BOOKING_FEE", total |-> <<30 * Cent>>]>> >>,
      preloadedDrinks |-> <<[total |-> <<10 * Cent>>]>>, totals |-> << >>],
     [lineItems |-> << >>, preloadedDrinks |-> << >>, totals |-> << >>]}

\* the entries pushed on results
BreakdownEntry(file, analysis) ==
    [filename |-> file, breakdown |-> <<processCostBreakdown(analysis)>>,
     rawAnalysis |-> <<analysis>>, error |-> << >>]
ErrorEntry(file) ==
    [filename |-> file, breakdown |-> << >>, rawAnalysis |-> << >>, error |-> <<"message">>]

\* results.filter(r => !r.error && r.breakdown)
Folded(rs) == SelectSeq(rs, LAMBDA r : r.error = << >> /\ r.breakdown # << >>)

\* the reduce: the sum of one figure over the entries folded
SumOfFigure(rs, field) == SumSeq([i \in DOMAIN rs |-> rs[i].breakdown[1][field]])

\* the unrounded totals behind a breakdown entry, the grand total among them
UnroundedFigure(entry, field) ==
    IF field = "grandTotal"
    THEN GrandTotal(FinalTotals(entry.rawAnalysis[1]), entry.rawAnalysis[1])
    ELSE FinalTotals(entry.rawAnalysis[1])[field]

\* a reduce that adds up the figures as they were before processCostBreakdown
\* rounded them
combinedTotalsUnrounded(rs) ==
    [field \in {"food", "drinks", "bowling", "darts", "miniGolf", "shuffleboard",
                "karaoke", "otherEntertainment", "bookingFee", "grandTotal"} |->
        SumSeq([i \in DOMAIN rs |-> UnroundedFigure(rs[i], field)])]

\* a reduce that leaves the booking fee at its initial 0
combinedTotalsNoBookingFee(rs) ==
    [food |-> SumOfFigure(rs, "food"),
     drinks |-> SumOfFigure(rs, "drinks"),
     bowling |-> SumOfFigure(rs, "bowling"),
     darts |-> SumOfFigure(rs, "darts"),
     miniGolf |-> SumOfFigure(rs, "miniGolf"),
     shuffleboard |-> SumOfFigure(rs, "shuffleboard"),
     karaoke |-> SumOfFigure(rs, "karaoke"),
     otherEntertainment |-> SumOfFigure(rs, "otherEntertainment"),
     bookingFee |-> 0,
     grandTotal |-> SumOfFigure(rs, "grandTotal")]

\* the reduce: each figure of the breakdowns added up
combinedTotals(rs) ==
    [food |-> SumOfFigure(rs, "food"),
     drinks |-> SumOfFigure(rs, "drinks"),
     bowling |-> SumOfFigure(rs, "bowling"),
     darts |-> SumOfFigure(rs, "darts"),
     miniGolf |-> SumOfFigure(rs, "miniGolf"),
     shuffleboard |-> SumOfFigure(rs, "shuffleboard"),
     karaoke |-> SumOfFigure(rs, "karaoke"),
     otherEntertainment |-> SumOfFigure(rs, "otherEntertainment"),
     bookingFee |-> SumOfFigure(rs, "bookingFee"),
     grandTotal |-> SumOfFigure(rs, "grandTotal")]

\* the body of the 200 response
UploadResponse(rs, ct) ==
    [status |-> 200,
     success |-> TRUE,
     results |-> rs,
     combinedTotals |->
        [food |-> toFixed2(ct.food),
         drinks |-> toFixed2(ct.drinks),
         bowling |-> toFixed2(ct.bowling),
         darts |-> toFixed2(ct.darts),
         miniGolf |-> toFixed2(ct.miniGolf),
         shuffleboard |-> toFixed2(ct.shuffleboard),
         karaoke |-> toFixed2(ct.karaoke),
         otherEntertainment |-> toFixed2(ct.otherEntertainment),
         entertainment |-> toFixed2(EntertainmentOf(ct)),
         bookingFee |-> toFixed2(ct.bookingFee),
         grandTotal |-> toFixed2(ct.grandTotal)],
     summary |->
        [totalFiles |-> Len(rs),
         successful |-> Len(SelectSeq(rs, LAMBDA r : r.error = << >>)),
         failed |-> Len(SelectSeq(rs, LAMBDA r : r.error # << >>))]]

InitUpload ==
    /\ upPc = "start"
    /\ files \in 0..MaxFiles
    /\ apiKey \in BOOLEAN
    /\ fileIdx = 1
    /\ analyses = << >>
    /\ results = << >>
    /\ unlinked = {}
    /\ upResponse = << >>
    /\ referenceProducts = << >>
    /\ MatcherIdle /\ BreakdownIdle /\ VendorIdle /\ SheetIdle

\* no files uploaded: 400
UpRejectNoFiles ==
    /\ upPc = "start"
    /\ files = 0
    /\ upResponse' = <<[status |-> 400, success |-> FALSE]>>
    /\ upPc' = "done"
    /\ UNCHANGED <<files, apiKey, fileIdx, analyses, results, unlinked, referenceProducts,
                   matcherVars, breakdownVars, vendorVars, sheetVars>>

\* no API key configured: 500, and the uploaded files stay where they are
UpRejectNoKey ==
    /\ upPc = "start"
    /\ files > 0
    /\ ~apiKey
    /\ upResponse' = <<[status |-> 500, success |-> FALSE]>>
    /\ upPc' = "done"
    /\ UNCHANGED <<files, apiKey, fileIdx, analyses, results, unlinked, referenceProducts,
                   matcherVars, breakdownVars, vendorVars, sheetVars>>

\* both checks pass and the for-loop is entered
UpEnterLoop ==
    /\ upPc = "start"
    /\ files > 0
    /\ apiKey
    /\ upPc' = "loop"
    /\ UNCHANGED <<files, apiKey, fileIdx, analyses, results, unlinked, upResponse,
                   referenceProducts, matcherVars, breakdownVars, vendorVars, sheetVars>>

\* results after a round in which the analysis succeeds and fs.unlink throws:
\* the breakdown entry is already pushed when the catch block pushes the error
PushedWhenUnlinkThrows(rs, file, analysis) ==
    Append(Append(rs, BreakdownEntry(file, analysis)), ErrorEntry(file))

\* the loop body that leaves the loop when the analysis throws
NextFileAbortOnThrow(idx, last) == last + 1

\* the file the loop goes on with after a round whose analysis threw
NextFileAfterThrow(idx, last) == idx + 1

\* one round of the for-loop over req.files
UpProcessFile ==
    /\ upPc = "loop"
    /\ fileIdx <= files
    /\ \/ \* the analysis succeeds and the temporary file is deleted
          \E analysis \in UploadAnalyses :
             /\ analyses' = Append(analyses, <<analysis>>)
             /\ results' = Append(results, BreakdownEntry(fileIdx, analysis))
             /\ fileIdx' = fileIdx + 1
       \/ \* the analysis succeeds and fs.unlink throws
          \E analysis \in UploadAnalyses :
             /\ analyses' = Append(analyses, <<analysis>>)
             /\ results' = PushedWhenUnlinkThrows(results, fileIdx, analysis)
             /\ fileIdx' = fileIdx + 1
       \/ \* analyzePartySheet or processCostBreakdown throws; what the unlink
          \* of the catch block throws is swallowed
          /\ analyses' = Append(analyses, << >>)
          /\ results' = Append(results, ErrorEntry(fileIdx))
          /\ fileIdx' = NextFileAfterThrow(fileIdx, files)
    /\ unlinked' = unlinked \cup {fileIdx}
    /\ UNCHANGED <<upPc, files, apiKey, upResponse, referenceProducts,
                   matcherVars, breakdownVars, vendorVars, sheetVars>>

\* the loop is over: the combined totals are folded and the response is sent
UpRespond ==
    /\ upPc = "loop"
    /\ fileIdx > files
    /\ upResponse' = <<UploadResponse(results, combinedTotals(Folded(results)))>>
    /\ upPc' = "done"
    /\ UNCHANGED <<files, apiKey, fileIdx, analyses, results, unlinked, referenceProducts,
                   matcherVars, breakdownVars, vendorVars, sheetVars>>

NextUpload == UpRejectNoFiles \/ UpRejectNoKey \/ UpEnterLoop \/ UpProcessFile \/ UpRespond

SpecUpload == InitUpload /\ [][NextUpload]_vars

-----------------------------------------------------------------------------
(* POST /api/vendor-costs: the products and the response *)

\* priceHistory.sort((a, b) => new Date(a.date) - new Date(b.date)) with an entry
\* put before the entries of its own date
RECURSIVE InsertByDateUnstable(_, _)
InsertByDateUnstable(sorted, e) ==
    IF sorted = << >> THEN <<e>>
    ELSE IF Head(sorted).date < e.date
         THEN <<Head(sorted)>> \o InsertByDateUnstable(Tail(sorted), e)
         ELSE <<e>> \o sorted

\* priceHistory.sort((a, b) => new Date(a.date) - new Date(b.date)): stable,
\* earliest date first
RECURSIVE InsertByDate(_, _)
InsertByDate(sorted, e) ==
    IF sorted = << >> THEN <<e>>
    ELSE IF Head(sorted).date <= e.date
         THEN <<Head(sorted)>> \o InsertByDate(Tail(sorted), e)
         ELSE <<e>> \o sorted

RECURSIVE SortByDate(_)
SortByDate(priceHistory) ==
    IF priceHistory = << >> THEN << >>
    ELSE InsertByDate(SortByDate(SubSeq(priceHistory, 1, Len(priceHistory) - 1)),
                      priceHistory[Len(priceHistory)])

\* parseFloat((num / den).toFixed(2)) for den > 0
toFixed2Ratio(num, den) ==
    IF num >= 0 THEN ((2 * num + Cent * den) \div (2 * Cent * den)) * Cent
    ELSE 0 - ((2 * (0 - num) + Cent * den) \div (2 * Cent * den)) * Cent

\* priceHistory.reduce((sum, item) => sum + item.price, 0)
SumOfPrices(priceHistory) == SumSeq([i \in DOMAIN priceHistory |-> priceHistory[i].price])

\* the percentage taken against the average as it is returned, rounded
PercentChangeFromRounded(mostRecentPrice, sum, n) ==
    IF mostRecentPrice # 0 /\ sum > 0 /\ toFixed2Ratio(sum, n) > 0
    THEN <<toFixed2Ratio(100 * (100 * Cent) * (mostRecentPrice - toFixed2Ratio(sum, n)),
                         toFixed2Ratio(sum, n))>>
    ELSE << >>

\* ((mostRecentPrice - averagePrice) / averagePrice) * 100 with averagePrice =
\* sum / n, rounded on return; a percentage of x% is the number 100 * Cent * x
PercentChange(mostRecentPrice, sum, n) ==
    IF mostRecentPrice # 0 /\ sum > 0
    THEN <<toFixed2Ratio(100 * (100 * Cent) * (mostRecentPrice * n - sum), sum)>>
    ELSE << >>

\* one entry of products; the price history of a product is never empty
ProductGiven(name, priceHistory, mostRecentPrice, sum) ==
    [productName |-> name,
     priceHistory |-> priceHistory,
     averagePrice |-> toFixed2Ratio(sum, Len(priceHistory)),
     mostRecentPrice |-> IF mostRecentPrice # 0 THEN <<toFixed2(mostRecentPrice)>> ELSE << >>,
     percentChange |-> PercentChange(mostRecentPrice, sum, Len(priceHistory))]

ProductOfSorted(name, priceHistory) ==
    ProductGiven(name, priceHistory, priceHistory[Len(priceHistory)].price,
                 SumOfPrices(priceHistory))

ProductOf(name, priceHistory) == ProductOfSorted(name, SortByDate(priceHistory))

\* String.prototype.localeCompare in the root collation: spaces, then
\* punctuation, then digits, then letters whatever their case; lower case before
\* upper case where nothing else tells two names apart
CollationPunctuation ==
    <<"_", "-", ",", ";", ":", "!", "?", ".", "'", "(", ")", "[", "]", "{", "}", "@", "*",
      "/", "&", "#", "%">>
IndexIn(seq, c) == CHOOSE i \in DOMAIN seq : seq[i] = c
PrimaryWeight(c) ==
    IF IsSpace(c) THEN 0
    ELSE IF c \in Range(CollationPunctuation) THEN IndexIn(CollationPunctuation, c)
    ELSE IF c \in Range(DigitChars) THEN 100 + IndexIn(DigitChars, c)
    ELSE IF toLowerCaseChar(c) \in Range(LowerChars)
         THEN 200 + IndexIn(LowerChars, toLowerCaseChar(c))
         ELSE 300

RECURSIVE ComparePrimary(_, _, _)
ComparePrimary(a, b, i) ==
    IF i > Len(a) /\ i > Len(b) THEN 0
    ELSE IF i > Len(a) THEN 0 - 1
    ELSE IF i > Len(b) THEN 1
    ELSE IF PrimaryWeight(a[i]) < PrimaryWeight(b[i]) THEN 0 - 1
    ELSE IF PrimaryWeight(a[i]) > PrimaryWeight(b[i]) THEN 1
    ELSE ComparePrimary(a, b, i + 1)

RECURSIVE CompareCase(_, _, _)
CompareCase(a, b, i) ==
    IF i > Len(a) THEN 0
    ELSE IF a[i] = b[i] THEN CompareCase(a, b, i + 1)
    ELSE IF a[i] = toLowerCaseChar(a[i]) THEN 0 - 1
    ELSE 1

CompareGiven(primary, a, b) == IF primary # 0 THEN primary ELSE CompareCase(a, b, 1)
localeCompare(a, b) == CompareGiven(ComparePrimary(a, b, 1), a, b)

\* products.sort((a, b) => a.productName.localeCompare(b.productName)); the names
\* are the keys of a Map, so no two are the same
FirstByLocaleCompare(names) ==
    CHOOSE a \in names : \A b \in names : localeCompare(a, b) <= 0
RECURSIVE SortByLocaleCompare(_)
FirstThenRest(first, names) == <<first>> \o SortByLocaleCompare(names \ {first})
SortByLocaleCompare(names) ==
    IF names = {} THEN << >> ELSE FirstThenRest(FirstByLocaleCompare(names), names)

\* Array.from(productsMap.entries()).map(...), sorted by name
ProductsInOrder(map, names) == [i \in DOMAIN names |-> ProductOf(names[i], map[names[i]])]
Products(map) == ProductsInOrder(map, SortByLocaleCompare(DOMAIN map))

\* the number of unmatched items the response carries
UnmatchedCap == 50

\* the response with every unmatched item in it
SliceUnmatchedAll(items) == items

\* unmatchedItems.slice(0, 50)
SliceUnmatched(items) == SubSeq(items, 1, Min(Len(items), UnmatchedCap))

VendorResponse(products) ==
    [success |-> TRUE,
     products |-> products,
     unmatchedItems |-> SliceUnmatched(unmatchedItems),
     summary |-> [referenceProductsCount |-> Len(referenceProducts),
                  matchedProductsCount |-> Len(products),
                  totalDataPoints |-> Len(allExtractedData),
                  matchedDataPoints |-> matchStats.matched,
                  unmatchedDataPoints |-> matchStats.unmatched,
                  mappedFromSheet |-> matchStats.mapped,
                  fuzzyMatched |-> matchStats.fuzzyMatched]]

\* the products are built and sorted and the response is sent
VcRespond ==
    /\ vcPc = "matched"
    /\ vcResponse' = <<VendorResponse(Products(productsMap))>>
    /\ vcPc' = "done"
    /\ UNCHANGED <<referenceProducts, mappingRows, productMapping, allExtractedData, itemIdx,
                   productsMap, unmatchedItems, matchStats, matchLog,
                   matcherVars, breakdownVars, uploadVars, sheetVars>>

NextVendor == VcProcessMappingSheet \/ VcMatchItem \/ VcEndMatching \/ VcRespond

SpecVendor == InitVendor /\ [][NextVendor]_vars

\* vendor files whose rows all name a product of the reference sheet, at several
\* prices and dates
SeriesObservations ==
    [productName : {nChickenTenders, nWings}, unitPrice : {200 * Cent, 300 * Cent + 4},
     date : {1, 2}, sourceFile : {1}]

InitVendorSeries ==
    /\ vcPc = "mapping"
    /\ referenceProducts = <<nWings, nChickenTenders>>
    /\ mappingRows = << >>
    /\ allExtractedData \in BoundedSeq(SeriesObservations, MaxSeriesObs)
    /\ productMapping = << >>
    /\ itemIdx = 1
    /\ productsMap = << >>
    /\ unmatchedItems = << >>
    /\ matchStats = [matched |-> 0, unmatched |-> 0, mapped |-> 0, fuzzyMatched |-> 0]
    /\ matchLog = << >>
    /\ vcResponse = << >>
    /\ MatcherIdle /\ BreakdownIdle /\ UploadIdle /\ SheetIdle

SpecVendorSeries == InitVendorSeries /\ [][NextVendor]_vars

\* a vendor file of n rows: every k-th row names a product of the reference
\* sheet, the others a product no reference entry resembles
ManyObservations(n, k) ==
    [i \in 1..n |->
        [productName |-> IF k > 0 /\ i % k = 0 THEN nWings ELSE nNapkins,
         unitPrice |-> (100 + i) * Cent, date |-> i, sourceFile |-> 1]]

InitVendorUnmatched ==
    /\ vcPc = "mapping"
    /\ referenceProducts = <<nWings>>
    /\ mappingRows = << >>
    /\ allExtractedData \in {ManyObservations(n, k) : n \in 0..MaxManyObs, k \in {0, 2, 30}}
    /\ productMapping = << >>
    /\ itemIdx = 1
    /\ productsMap = << >>
    /\ unmatchedItems = << >>
    /\ matchStats = [matched |-> 0, unmatched |-> 0, mapped |-> 0, fuzzyMatched |-> 0]
    /\ matchLog = << >>
    /\ vcResponse = << >>
    /\ MatcherIdle /\ BreakdownIdle /\ UploadIdle /\ SheetIdle

SpecVendorUnmatched == InitVendorUnmatched /\ [][NextVendor]_vars

-----------------------------------------------------------------------------
(* Claims about matchProductName (SpecMatcher) *)

\* the positions of the reference entries whose normalized form is the candidate's
ExactEntries(candidate, refs) ==
    {i \in DOMAIN refs : normalizeProductName(refs[i]) = normalizeProductName(candidate)}

\* the highest score any reference entry gets
IsBestScore(candidate, refs, i) ==
    \A j \in DOMAIN refs :
        ScoreGE(calculateSimilarity(candidate, refs[i]), calculateSimilarity(candidate, refs[j]))

\* C2: when some reference entry has the candidate's normalized form,
\* matchProductName returns the first such entry, and so never an entry whose
\* normalized form differs, whatever the fuzzy scores are.
C2_ExactMatchWins ==
    (matched # << >> /\ ExactEntries(productName, referenceProducts) # {}) =>
        LET exact == ExactEntries(productName, referenceProducts)
            first == CHOOSE i \in exact : \A j \in exact : i <= j
        IN  /\ matched[1] = referenceProducts[first]
            /\ normalizeProductName(matched[1]) = normalizeProductName(productName)

\* C2 happens: the exact entry is returned although an entry of another
\* normalized form stands before it in the list and scores above the threshold.
C2_Witness ==
    /\ matched # << >>
    /\ Len(referenceProducts) = 2
    /\ ExactEntries(productName, referenceProducts) = {2}
    /\ ScoreGE(calculateSimilarity(productName, referenceProducts[1]), Percent(Threshold))
    /\ matched[1] = referenceProducts[2]

\* C3: when no reference entry has the candidate's normalized form, the result
\* is a reference entry exactly when the highest score is at least 30, that
\* entry has the highest score, and the result is null otherwise.
C3_FuzzyThreshold ==
    (matched # << >> /\ ExactEntries(productName, referenceProducts) = {}) =>
        IF \E i \in DOMAIN referenceProducts :
              /\ IsBestScore(productName, referenceProducts, i)
              /\ ScoreGE(calculateSimilarity(productName, referenceProducts[i]), Percent(Threshold))
        THEN \E i \in DOMAIN referenceProducts :
              /\ matched[1] = referenceProducts[i]
              /\ IsBestScore(productName, referenceProducts, i)
        ELSE matched[1] = null

\* C3 happens: of two entries, neither exact, the second scores higher and at
\* least 30, and is returned.
C3_Witness ==
    /\ matched # << >>
    /\ Len(referenceProducts) = 2
    /\ ExactEntries(productName, referenceProducts) = {}
    /\ ScoreGT(calculateSimilarity(productName, referenceProducts[2]),
               calculateSimilarity(productName, referenceProducts[1]))
    /\ ScoreGT(calculateSimilarity(productName, referenceProducts[1]), Percent(0))
    /\ matched[1] = referenceProducts[2]

-----------------------------------------------------------------------------
(* Claims about the vendor matching loop (SpecVendor) *)

\* the observations already processed whose normalized name is a key of the table
MappedItems ==
    {i \in 1..Len(matchLog) :
        normalizeProductName(allExtractedData[i].productName) \in DOMAIN productMapping}

\* C1: every processed observation whose normalized invoice name is a key of
\* productMapping is assigned the table's reference name for that key, and it is
\* counted as mapped and never as fuzzy-matched: matchProductName has no part in it.
C1_MappingWins ==
    /\ \A i \in MappedItems :
          matchLog[i] = productMapping[normalizeProductName(allExtractedData[i].productName)]
    /\ vcPc \in {"match", "matched"} =>
          /\ matchStats.mapped = Cardinality(MappedItems)
          /\ matchStats.fuzzyMatched =
                Cardinality({i \in 1..Len(matchLog) : i \notin MappedItems /\ Truthy(matchLog[i])})

\* C1 happens: an observation is assigned the table's name although
\* matchProductName finds another reference product for it.
C1_Witness ==
    /\ 1 \in MappedItems
    /\ Truthy(matchProductName(allExtractedData[1].productName, referenceProducts))
    /\ matchProductName(allExtractedData[1].productName, referenceProducts) # matchLog[1]
    /\ matchLog[1] \in DOMAIN productsMap
    /\ matchStats.mapped = 1 /\ matchStats.fuzzyMatched = 0

-----------------------------------------------------------------------------
(* Claims about processCostBreakdown (SpecBreakdown) *)

\* the sum of the totals of the line items of one category
SumOfCategory(category) ==
    SumSeq([i \in DOMAIN ItemsOf(analysisResult) |->
               IF ItemsOf(analysisResult)[i].category = category
               THEN Amount(ItemsOf(analysisResult)[i]) ELSE 0])

\* preloadedDrinks is present and carries a total
CarriesTotal ==
    analysisResult.preloadedDrinks # << >> /\ analysisResult.preloadedDrinks[1].total # << >>

\* the food and the drinks the preloaded-drinks rule gives, totals given directly
\* left aside
RuleFood ==
    IF HasPreloadedTotal(analysisResult)
    THEN Max(0, SumOfCategory("FOOD") - PreloadedAmount(analysisResult))
    ELSE SumOfCategory("FOOD")
RuleDrinks ==
    IF HasPreloadedTotal(analysisResult)
    THEN SumOfCategory("DRINKS") + PreloadedAmount(analysisResult)
    ELSE SumOfCategory("DRINKS")

\* a figure of the result's totals object, or the figure computed when the
\* object or the figure is missing
GivenOr(field, computed) ==
    IF analysisResult.totals # << >> /\ analysisResult.totals[1][field] # << >>
    THEN analysisResult.totals[1][field][1]
    ELSE computed

\* the sum of the six entertainment buckets, ENTERTAINMENT counted as other
\* entertainment
RuleEntertainment ==
    SumOfCategory("BOWLING") + SumOfCategory("DARTS") + SumOfCategory("MINI_GOLF")
    + SumOfCategory("SHUFFLEBOARD") + SumOfCategory("KARAOKE")
    + SumOfCategory("OTHER_ENTERTAINMENT") + SumOfCategory("ENTERTAINMENT")

\* C4 as stated: with a preloaded total p, food = max(0, F - p) and
\* drinks = D + p; without preloadedDrinks, food = F and drinks = D (each as
\* returned, rounded to cents).
C4_AsStated ==
    breakdown # << >> =>
        /\ CarriesTotal =>
              /\ breakdown[1].food =
                    toFixed2(Max(0, SumOfCategory("FOOD")
                                    - analysisResult.preloadedDrinks[1].total[1]))
              /\ breakdown[1].drinks =
                    toFixed2(SumOfCategory("DRINKS")
                             + analysisResult.preloadedDrinks[1].total[1])
        /\ analysisResult.preloadedDrinks = << >> =>
              /\ breakdown[1].food = toFixed2(SumOfCategory("FOOD"))
              /\ breakdown[1].drinks = toFixed2(SumOfCategory("DRINKS"))

\* C4, amended: the returned food is totals.food when the result gives one, and
\* otherwise max(0, F - p) for a preloaded total p that is not 0 and F when
\* there is no such total; the returned drinks is totals.drinks when given, and
\* otherwise D + p, or D; each rounded to cents.
C4_PreloadedDrinks ==
    breakdown # << >> =>
        /\ breakdown[1].food = toFixed2(GivenOr("food", RuleFood))
        /\ breakdown[1].drinks = toFixed2(GivenOr("drinks", RuleDrinks))

\* C4 happens: no totals are given, a preloaded total below the food sum is
\* taken from the food and added to the drinks.
C4_Witness ==
    /\ breakdown # << >>
    /\ analysisResult.totals = << >>
    /\ HasPreloadedTotal(analysisResult)
    /\ SumOfCategory("FOOD") > PreloadedAmount(analysisResult)
    /\ SumOfCategory("DRINKS") > 0
    /\ breakdown[1].food = toFixed2(SumOfCategory("FOOD") - PreloadedAmount(analysisResult))
    /\ breakdown[1].drinks > toFixed2(SumOfCategory("DRINKS"))

\* C5: whenever the preloaded-drinks subtraction is made, the returned food is
\* not negative, whatever else the analysis result holds.
C5_FoodNeverNegative ==
    (breakdown # << >> /\ HasPreloadedTotal(analysisResult)) => breakdown[1].food >= 0

\* the money figures of a breakdown
Figures(b) ==
    <<b.food, b.drinks, b.bowling, b.darts, b.miniGolf, b.shuffleboard, b.karaoke,
      b.otherEntertainment, b.entertainment, b.bookingFee, b.grandTotal>>

\* the analysis result a without its line item i
WithoutItem(a, i) ==
    [a EXCEPT !.lineItems =
        <<SubSeq(a.lineItems[1], 1, i - 1) \o SubSeq(a.lineItems[1], i + 1, Len(a.lineItems[1]))>>]

\* the nine categories of a line item
NamedCategories ==
    {"FOOD", "DRINKS", "BOWLING", "DARTS", "MINI_GOLF", "SHUFFLEBOARD", "KARAOKE",
     "OTHER_ENTERTAINMENT", "BOOKING_FEE"}

\* C6 as stated: a line item whose category is none of the nine adds nothing:
\* every figure of the breakdown is what it is without the item.
C6_AsStated ==
    breakdown # << >> =>
        \A i \in DOMAIN ItemsOf(analysisResult) :
            ItemsOf(analysisResult)[i].category \notin NamedCategories =>
                Figures(breakdown[1])
                    = Figures(processCostBreakdown(WithoutItem(analysisResult, i)))

\* C6, amended: a line item whose category is none of the nine and not
\* ENTERTAINMENT adds nothing to any figure of the breakdown.
C6_UnknownCategory ==
    breakdown # << >> =>
        \A i \in DOMAIN ItemsOf(analysisResult) :
            ItemsOf(analysisResult)[i].category \notin NamedCategories \cup {"ENTERTAINMENT"} =>
                Figures(breakdown[1])
                    = Figures(processCostBreakdown(WithoutItem(analysisResult, i)))

\* C6 happens: an item of an unknown category with a total stands beside an
\* item that is counted, and the breakdown is that of the counted item alone.
C6_Witness ==
    /\ breakdown # << >>
    /\ Len(ItemsOf(analysisResult)) = 2
    /\ ItemsOf(analysisResult)[1].category = "GRATUITY"
    /\ Amount(ItemsOf(analysisResult)[1]) > 0
    /\ ItemsOf(analysisResult)[2].category = "KARAOKE"
    /\ analysisResult.totals = << >>
    /\ breakdown[1].grandTotal = toFixed2(Amount(ItemsOf(analysisResult)[2]))
    /\ breakdown[1].otherEntertainment = 0

\* C7 as stated: the grand total is the sum of the food and drinks the
\* preloaded-drinks rule gives, the entertainment and the booking fee (rounded
\* to cents).
C7_AsStated ==
    breakdown # << >> =>
        breakdown[1].grandTotal =
            toFixed2(RuleFood + RuleDrinks + RuleEntertainment + SumOfCategory("BOOKING_FEE"))

\* C7, amended: the grand total is the sum of food, drinks, entertainment and
\* booking fee as they stand after the preloaded-drinks rule and after the
\* totals given directly have replaced food, drinks and booking fee (rounded to
\* cents).
C7_GrandTotal ==
    breakdown # << >> =>
        breakdown[1].grandTotal =
            toFixed2(GivenOr("food", RuleFood) + GivenOr("drinks", RuleDrinks)
                     + RuleEntertainment
                     + GivenOr("bookingFee", SumOfCategory("BOOKING_FEE")))

\* C7 happens: with a preloaded total, a food total given directly and a
\* booking fee, the grand total follows the given food total.
C7_Witness ==
    /\ breakdown # << >>
    /\ HasPreloadedTotal(analysisResult)
    /\ GivenOr("food", RuleFood) # RuleFood
    /\ SumOfCategory("BOOKING_FEE") > 0
    /\ breakdown[1].grandTotal
          # toFixed2(RuleFood + RuleDrinks + RuleEntertainment + SumOfCategory("BOOKING_FEE"))
    /\ breakdown[1].grandTotal > 0

-----------------------------------------------------------------------------
(* Claims about /api/upload (SpecUpload) *)

\* the 200 response has been sent
Answered == upResponse # << >> /\ upResponse[1].status = 200

\* the entries of results for one document
EntriesOf(file) == SelectSeq(results, LAMBDA r : r.filename = file)

\* the documents whose processing produced an error
FailedDocuments == {f \in 1..files : \E i \in DOMAIN results :
                                         results[i].filename = f /\ results[i].error # << >>}

\* the figures of the combined totals that are sums over the documents
SummedFigures ==
    {"food", "drinks", "bowling", "darts", "miniGolf", "shuffleboard", "karaoke",
     "otherEntertainment", "bookingFee", "grandTotal"}

\* the breakdown of a document whose analysis succeeded
BreakdownOf(file) == processCostBreakdown(analyses[file][1])

\* the sum of f over the documents of the set S
RECURSIVE SumOver(_, _)
SumOver(S, f) ==
    IF S = {} THEN 0
    ELSE f[MinOf(S)] + SumOver(S \ {MinOf(S)}, f)

\* C8: in the response, each combined total is the sum of that figure of the
\* breakdowns of exactly the documents without an error, and summary.failed
\* counts the documents with an error.
C8_CombinedTotals ==
    Answered =>
        /\ \A field \in SummedFigures :
              upResponse[1].combinedTotals[field] =
                  SumOver((1..files) \ FailedDocuments,
                          [f \in (1..files) \ FailedDocuments |-> BreakdownOf(f)[field]])
        /\ upResponse[1].summary.failed = Cardinality(FailedDocuments)

\* C9: when the response is sent every uploaded file has been analysed; a file
\* whose analysis failed has one entry, an error; every other file has an entry
\* with its own breakdown; and the response reports success.
C9_BatchNotAborted ==
    (upPc = "done" /\ files > 0 /\ apiKey) =>
        /\ Answered /\ upResponse[1].success
        /\ Len(analyses) = files
        /\ \A f \in 1..files :
              IF analyses[f] = << >>
              THEN EntriesOf(f) = <<ErrorEntry(f)>>
              ELSE /\ Len(EntriesOf(f)) >= 1
                   /\ EntriesOf(f)[1].breakdown = <<BreakdownOf(f)>>
                   /\ EntriesOf(f)[1].error = << >>

\* C9 happens: the analysis of the first of two files fails, the second is
\* analysed all the same and the batch is answered with both entries.
C9_Witness ==
    /\ Answered
    /\ files = 2
    /\ analyses[1] = << >>
    /\ analyses[2] # << >>
    /\ Len(results) = 2
    /\ results[1].error # << >>
    /\ results[2].breakdown # << >>
    /\ results[2].breakdown[1].grandTotal > 0
    /\ upResponse[1].combinedTotals.grandTotal = results[2].breakdown[1].grandTotal

\* C10 as stated: every combined total is one rounding of the sum of the
\* unrounded totals of the documents folded.
C10_AsStated ==
    Answered =>
        \A field \in SummedFigures :
            upResponse[1].combinedTotals[field] =
                toFixed2(SumSeq([i \in DOMAIN Folded(results) |->
                                    UnroundedFigure(Folded(results)[i], field)]))

\* C10, amended: every combined total is the sum, rounded to cents, of the
\* documents' totals as processCostBreakdown returned them, each of them rounded
\* to cents already; the combined entertainment is the rounded sum of the six
\* combined entertainment figures.
C10_RoundedTwice ==
    Answered =>
        /\ \A field \in SummedFigures :
              upResponse[1].combinedTotals[field] =
                  toFixed2(SumSeq([i \in DOMAIN Folded(results) |->
                              toFixed2(UnroundedFigure(Folded(results)[i], field))]))
        /\ upResponse[1].combinedTotals.entertainment =
              toFixed2(SumSeq([i \in DOMAIN Folded(results) |->
                  toFixed2(UnroundedFigure(Folded(results)[i], "bowling"))
                  + toFixed2(UnroundedFigure(Folded(results)[i], "darts"))
                  + toFixed2(UnroundedFigure(Folded(results)[i], "miniGolf"))
                  + toFixed2(UnroundedFigure(Folded(results)[i], "shuffleboard"))
                  + toFixed2(UnroundedFigure(Folded(results)[i], "karaoke"))
                  + toFixed2(UnroundedFigure(Folded(results)[i], "otherEntertainment"))]))

\* C10 happens: two documents each with food below half a cent are folded; the
\* combined food is 0 although the unrounded sum rounds to a cent.
C10_Witness ==
    /\ Answered
    /\ Len(Folded(results)) = 2
    /\ UnroundedFigure(Folded(results)[1], "food") > 0
    /\ UnroundedFigure(Folded(results)[2], "food") > 0
    /\ upResponse[1].combinedTotals.food = 0
    /\ toFixed2(UnroundedFigure(Folded(results)[1], "food")
                + UnroundedFigure(Folded(results)[2], "food")) = Cent

-----------------------------------------------------------------------------
(* Ties of the highest score in matchProductName (SpecMatcher) *)

\* the entries with the highest score
BestEntries(candidate, refs) == {i \in DOMAIN refs : IsBestScore(candidate, refs, i)}

\* C17: when several reference entries share the highest score and that score
\* is at least 30, matchProductName (no entry being an exact match) returns
\* the one of them that comes first in the reference list.
C17_FirstOfTies ==
    (/\ matched # << >>
     /\ ExactEntries(productName, referenceProducts) = {}
     /\ \E i \in BestEntries(productName, referenceProducts) :
           ScoreGE(calculateSimilarity(productName, referenceProducts[i]), Percent(Threshold)))
    => \E i \in BestEntries(productName, referenceProducts) :
           /\ \A j \in BestEntries(productName, referenceProducts) : i <= j
           /\ matched[1] = referenceProducts[i]

\* C17 happens: two different entries get the same score, at least 30, and the
\* first is returned.
C17_Witness ==
    /\ matched # << >>
    /\ ExactEntries(productName, referenceProducts) = {}
    /\ BestEntries(productName, referenceProducts) = {1, 2}
    /\ referenceProducts[1] # referenceProducts[2]
    /\ ScoreGE(calculateSimilarity(productName, referenceProducts[1]), Percent(Threshold))
    /\ matched[1] = referenceProducts[1]

-----------------------------------------------------------------------------
(* The entertainment subtypes of processCostBreakdown (SpecBreakdown) *)

\* the six entertainment subtypes as returned and as summed over the line items
SubtypeSums ==
    <<SumOfCategory("BOWLING"), SumOfCategory("DARTS"), SumOfCategory("MINI_GOLF"),
      SumOfCategory("SHUFFLEBOARD"), SumOfCategory("KARAOKE"),
      SumOfCategory("OTHER_ENTERTAINMENT") + SumOfCategory("ENTERTAINMENT")>>
SubtypesReturned(b) ==
    <<b.bowling, b.darts, b.miniGolf, b.shuffleboard, b.karaoke, b.otherEntertainment>>

\* C20: each of the six entertainment subtypes is returned as the sum of its
\* own line items, and the entertainment figure returned is the sum of the six
\* subtype sums (every figure rounded to cents on return).
C20_EntertainmentAggregate ==
    breakdown # << >> =>
        /\ \A k \in 1..6 : SubtypesReturned(breakdown[1])[k] = toFixed2(SubtypeSums[k])
        /\ breakdown[1].entertainment = toFixed2(SumSeq(SubtypeSums))

\* C20 happens: a karaoke item and an item of other entertainment are returned
\* each under its own subtype and together as the entertainment.
C20_Witness ==
    /\ breakdown # << >>
    /\ breakdown[1].karaoke = 30 * Cent
    /\ breakdown[1].otherEntertainment = 30 * Cent
    /\ breakdown[1].bowling = 0
    /\ breakdown[1].entertainment = 60 * Cent

-----------------------------------------------------------------------------
(* Claims about calculateSimilarity (SpecSimilarity) *)

\* the two names have the same normalized form
SameNormalizedForm == normalizeProductName(productName) = normalizeProductName(simReference)

\* a score equals the number n
ScoreIs(s, n) == s.num = n * s.den

\* the pairs of a token of the candidate and a token of the reference that
\* wordsSimilar holds for
SimilarPairs(c, r) ==
    Cardinality({p \in (DOMAIN c) \X (DOMAIN r) : wordsSimilar(c[p[1]], r[p[2]])})

\* 15 when one normalized string contains the other, 0 otherwise
Bonus(c, r) == IF includes(c, r) \/ includes(r, c) THEN 15 ELSE 0

\* C15 as stated: for every pair of names with the same normalized form the
\* score is 100.
C15_AsStated ==
    (simScore # << >> /\ SameNormalizedForm) => ScoreIs(simScore[1], 100)

\* C15, amended: for names with the same normalized form the score is 100 when
\* that form has a token of more than one character, and 0 when it has none.
C15_EqualForms ==
    (simScore # << >> /\ SameNormalizedForm) =>
        IF Len(Words(productName)) > 0
        THEN ScoreIs(simScore[1], 100)
        ELSE ScoreIs(simScore[1], 0)

\* C15 happens: two names that differ as written have the same normalized form,
\* which has tokens, and score 100.
C15_Witness ==
    /\ simScore # << >>
    /\ productName # simReference
    /\ SameNormalizedForm
    /\ Len(Words(productName)) = 2
    /\ ScoreIs(simScore[1], 100)

\* C16: with tokens on both sides and different normalized forms the score is
\* min(100, 80 * m / max(|C|, |R|) + b), m the number of similar token pairs
\* and b the containment bonus; it is 0 when a token list is empty; and it is
\* always between 0 and 100.
C16_ScoreFormula ==
    simScore # << >> =>
        /\ simScore[1].den > 0
        /\ simScore[1].num >= 0 /\ simScore[1].num <= 100 * simScore[1].den
        /\ (Len(Words(productName)) = 0 \/ Len(Words(simReference)) = 0) =>
              ScoreIs(simScore[1], 0)
        /\ (Len(Words(productName)) > 0 /\ Len(Words(simReference)) > 0
            /\ ~SameNormalizedForm) =>
              simScore[1].num * Max(Len(Words(productName)), Len(Words(simReference)))
                 = simScore[1].den
                   * Min(100 * Max(Len(Words(productName)), Len(Words(simReference))),
                         80 * SimilarPairs(Words(productName), Words(simReference))
                         + Bonus(normalizeProductName(productName),
                                 normalizeProductName(simReference))
                           * Max(Len(Words(productName)), Len(Words(simReference))))

\* C16 happens: two tokens on each side give four similar pairs, more than
\* there are tokens, and the score stops at 100.
C16_Witness ==
    /\ simScore # << >>
    /\ ~SameNormalizedForm
    /\ Len(Words(productName)) = 2 /\ Len(Words(simReference)) = 2
    /\ SimilarPairs(Words(productName), Words(simReference)) = 4
    /\ ScoreIs(simScore[1], 100)

-----------------------------------------------------------------------------
(* Claims about wordsSimilar (SpecWordsSimilar) *)

\* w without one trailing s
WithoutS(w) == IF w # << >> /\ w[Len(w)] = "s" THEN SubSeq(w, 1, Len(w) - 1) ELSE w

\* a is a key of the variant table and b one of its variants
KeyAndVariant(a, b) ==
    <<a, b>> \in {<<<<"w", "i", "n", "g">>, <<"w", "i", "n", "g", "s">>>>,
                  <<<<"p", "r", "e", "t", "z", "e", "l">>, <<"p", "r", "e", "t", "z", "e", "l", "s">>>>,
                  <<<<"b", "i", "t", "e">>, <<"b", "i", "t", "e", "s">>>>,
                  <<<<"t", "e", "n", "d", "e", "r">>, <<"t", "e", "n", "d", "e", "r", "s">>>>,
                  <<<<"c", "h", "i", "c", "k", "e", "n">>, <<"c", "h", "i", "c", "k", "e", "n", "s">>>>,
                  <<<<"b", "e", "e", "f">>, <<"b", "e", "e", "f", "s">>>>,
                  <<<<"p", "o", "r", "k">>, <<"p", "o", "r", "k", "s">>>>}

\* a occurs in b
OccursIn(a, b) == \E i \in 1..(Len(b) - Len(a) + 1) : \A j \in 1..Len(a) : b[i + j - 1] = a[j]

\* C18: wordsSimilar(a, b) is true exactly when a and b are identical, or equal
\* after a trailing s is taken from either or both, or key and variant of the
\* table, or both longer than 3 characters and one a substring of the other.
C18_WordsSimilar ==
    wsResult # << >> =>
        (wsResult[1] <=>
            \/ wsWord1 = wsWord2
            \/ WithoutS(wsWord1) = wsWord2 \/ wsWord1 = WithoutS(wsWord2)
            \/ WithoutS(wsWord1) = WithoutS(wsWord2)
            \/ KeyAndVariant(wsWord1, wsWord2) \/ KeyAndVariant(wsWord2, wsWord1)
            \/ /\ Len(wsWord1) > 3 /\ Len(wsWord2) > 3
               /\ (OccursIn(wsWord1, wsWord2) \/ OccursIn(wsWord2, wsWord1)))

\* C18 happens: a word of three characters inside a longer one is not similar
\* to it.
C18_Witness ==
    /\ wsResult # << >>
    /\ Len(wsWord1) = 3
    /\ OccursIn(wsWord1, wsWord2)
    /\ wsWord1 # WithoutS(wsWord2)
    /\ wsResult[1] = FALSE

-----------------------------------------------------------------------------
(* Claims about normalizeProductName (SpecNormalize) *)

\* C19: the result holds only lower-case letters, digits and single spaces, it
\* neither starts nor ends with a space, and it is empty for an absent argument.
C19_NormalForm ==
    normResult # << >> =>
        /\ \A i \in DOMAIN normResult[1] :
              normResult[1][i] \in Range(LowerChars) \cup Range(DigitChars) \cup {" "}
        /\ \A i \in DOMAIN normResult[1] :
              normResult[1][i] = " " => (i > 1 /\ i < Len(normResult[1])
                                         /\ normResult[1][i + 1] # " ")
        /\ normName = null => normResult[1] = << >>

-----------------------------------------------------------------------------
(* Claims about the products and the response of /api/vendor-costs
   (SpecVendorSeries, SpecVendorUnmatched) *)

\* a figure with at most 2 decimal digits
TwoDecimals(x) == x % Cent = 0
AbsentOrTwoDecimals(f) == f = << >> \/ TwoDecimals(f[1])

\* C11: every monetary or percentage figure of the outputs has at most 2
\* decimal digits: the figures of a breakdown, the combined totals, and of every
\* product the average price, the most recent price, the percent change and
\* each price of its price history.
C11_TwoDecimals ==
    /\ breakdown # << >> =>
          \A k \in DOMAIN Figures(breakdown[1]) : TwoDecimals(Figures(breakdown[1])[k])
    /\ (upResponse # << >> /\ upResponse[1].status = 200) =>
          \A k \in DOMAIN Figures(upResponse[1].combinedTotals) :
              TwoDecimals(Figures(upResponse[1].combinedTotals)[k])
    /\ vcResponse # << >> =>
          \A i \in DOMAIN vcResponse[1].products :
              /\ TwoDecimals(vcResponse[1].products[i].averagePrice)
              /\ AbsentOrTwoDecimals(vcResponse[1].products[i].mostRecentPrice)
              /\ AbsentOrTwoDecimals(vcResponse[1].products[i].percentChange)
              /\ \A j \in DOMAIN vcResponse[1].products[i].priceHistory :
                    TwoDecimals(vcResponse[1].products[i].priceHistory[j].price)

\* the observations grouped under a product, by their place in the input
ObservationsOf(name) == {i \in DOMAIN matchLog : matchLog[i] = name}

\* the place the observation i of a group has when the group is ordered by date
\* and, within a date, by place in the input
PlaceByDate(group, i) ==
    1 + Cardinality({j \in group :
                        \/ allExtractedData[j].date < allExtractedData[i].date
                        \/ /\ allExtractedData[j].date = allExtractedData[i].date
                           /\ j < i})

\* an observation as an entry of a price history
AsEntry(item) == [date |-> item.date, price |-> item.unitPrice, sourceFile |-> item.sourceFile]

\* C12: in every product of the response the price history holds the
\* observations of the product by date ascending, observations of one date in
\* their input order, and mostRecentPrice is the price of the last entry of
\* that history (rounded to cents as every figure returned).
C12_HistoryByDate ==
    vcResponse # << >> =>
        \A p \in Range(vcResponse[1].products) :
            /\ Len(p.priceHistory) = Cardinality(ObservationsOf(p.productName))
            /\ \A i \in ObservationsOf(p.productName) :
                  p.priceHistory[PlaceByDate(ObservationsOf(p.productName), i)]
                      = AsEntry(allExtractedData[i])
            /\ \A j, k \in DOMAIN p.priceHistory :
                  j < k => p.priceHistory[j].date <= p.priceHistory[k].date
            /\ p.mostRecentPrice = <<toFixed2(p.priceHistory[Len(p.priceHistory)].price)>>

\* C12 happens: three observations of one product come latest date first, the
\* two of the earlier date at different prices; the history has the two in
\* their input order, then the latest, whose price is the most recent one.
C12_Witness ==
    /\ vcResponse # << >>
    /\ Len(allExtractedData) = 3
    /\ allExtractedData[1].date = 2
    /\ allExtractedData[2].date = 1 /\ allExtractedData[2].unitPrice = 300 * Cent + 4
    /\ allExtractedData[3].date = 1 /\ allExtractedData[3].unitPrice = 200 * Cent
    /\ Len(vcResponse[1].products) = 1
    /\ vcResponse[1].products[1].priceHistory
          = <<AsEntry(allExtractedData[2]), AsEntry(allExtractedData[3]),
              AsEntry(allExtractedData[1])>>
    /\ vcResponse[1].products[1].mostRecentPrice = <<toFixed2(allExtractedData[1].unitPrice)>>

\* a is num / den rounded to cents
Rounded(a, num, den) ==
    /\ TwoDecimals(a)
    /\ 2 * (a * den - num) <= Cent * den
    /\ 2 * (num - a * den) <= Cent * den

\* the sum of the prices of the observations grouped under a product
RECURSIVE SumOfObserved(_)
SumOfObserved(group) ==
    IF group = {} THEN 0
    ELSE allExtractedData[MinOf(group)].unitPrice + SumOfObserved(group \ {MinOf(group)})

\* the average and the percent change of a product whose observations are n
\* prices of the sum sum, the latest of them mostRecent
AverageAndChange(p, mostRecent, sum, n) ==
    /\ n > 0 => Rounded(p.averagePrice, sum, n)
    /\ (p.percentChange = << >>) <=> (n = 0 \/ sum = 0)
    /\ p.percentChange # << >> =>
          Rounded(p.percentChange[1], 100 * (100 * Cent) * (mostRecent * n - sum), sum)

\* C13: for every product averagePrice is the arithmetic mean of the prices of
\* its observations and percentChange is (mostRecentPrice - averagePrice) /
\* averagePrice * 100 taken from the average and the price before they are
\* rounded (each figure rounded to cents on return); percentChange is absent
\* exactly when the average is 0 or the group is empty.
C13_AverageAndChange ==
    vcResponse # << >> =>
        \A p \in Range(vcResponse[1].products) :
            AverageAndChange(p, p.priceHistory[Len(p.priceHistory)].price,
                             SumOfObserved(ObservationsOf(p.productName)),
                             Cardinality(ObservationsOf(p.productName)))

\* C13 happens: prices 2.00 and then 3.004 average to 2.502, returned as 2.50,
\* and the change is 20.06 percent, not the 20.16 percent the rounded average
\* would give.
C13_Witness ==
    /\ vcResponse # << >>
    /\ Len(allExtractedData) = 2
    /\ allExtractedData[1].unitPrice = 200 * Cent /\ allExtractedData[1].date = 1
    /\ allExtractedData[2].unitPrice = 300 * Cent + 4 /\ allExtractedData[2].date = 2
    /\ Len(vcResponse[1].products) = 1
    /\ vcResponse[1].products[1].averagePrice = 250 * Cent
    /\ vcResponse[1].products[1].percentChange = <<2006 * Cent>>

\* the observations no product was found for, by their place in the input
UnmatchedObservations == {i \in DOMAIN matchLog : ~Truthy(matchLog[i])}

\* an observation as an entry of unmatchedItems
AsUnmatched(item) ==
    [productName |-> item.productName, price |-> item.unitPrice, date |-> item.date,
     sourceFile |-> item.sourceFile]

\* C14: the unmatchedItems of the response are the first min(50, n) unmatched
\* observations in the order they were met, n their number, and
\* summary.unmatchedDataPoints is n, also when n is more than 50.
C14_UnmatchedCap ==
    vcResponse # << >> =>
        /\ Len(vcResponse[1].unmatchedItems) = Min(UnmatchedCap, Cardinality(UnmatchedObservations))
        /\ \A i \in UnmatchedObservations :
              Cardinality({j \in UnmatchedObservations : j <= i}) <= UnmatchedCap =>
                  vcResponse[1].unmatchedItems[Cardinality({j \in UnmatchedObservations : j <= i})]
                      = AsUnmatched(allExtractedData[i])
        /\ vcResponse[1].summary.unmatchedDataPoints = Cardinality(UnmatchedObservations)

\* C14 happens: of 52 observations 51 match no product; the response lists 50
\* of them and counts 51.
C14_Witness ==
    /\ vcResponse # << >>
    /\ Len(allExtractedData) = MaxManyObs
    /\ Cardinality(UnmatchedObservations) > UnmatchedCap
    /\ Cardinality(UnmatchedObservations) < Len(allExtractedData)
    /\ Len(vcResponse[1].unmatchedItems) = UnmatchedCap
    /\ vcResponse[1].summary.unmatchedDataPoints = Cardinality(UnmatchedObservations)
    /\ vcResponse[1].summary.matchedDataPoints >= 1

-----------------------------------------------------------------------------
(* Algebraic properties of normalizeProductName (SpecNormalize) and of
   wordsSimilar and calculateSimilarity (SpecSimilarity) *)

\* C29 as stated: normalizing a normalized name changes nothing.
C29_AsStated ==
    normResult # << >> => normalizeProductName(normResult[1]) = normResult[1]

\* r starts with an article and a space or ends with a space and an article
HasOuterArticle(r) ==
    \E k \in DOMAIN Articles :
        \/ /\ Len(r) > Len(Articles[k])
           /\ SubSeq(r, 1, Len(Articles[k]) + 1) = Articles[k] \o <<" ">>
        \/ /\ Len(r) > Len(Articles[k])
           /\ SubSeq(r, Len(r) - Len(Articles[k]), Len(r)) = <<" ">> \o Articles[k]

\* C29, amended: normalizing a normalized name changes nothing exactly when
\* the normalized name neither starts with an article (the, a, an) and a space
\* nor ends with a space and an article; and the mapping table stores a name
\* under the form normalizeProductName gives it, the form it is looked up by.
C29_IdempotentWithoutArticle ==
    normResult # << >> =>
        /\ (normalizeProductName(normResult[1]) = normResult[1])
              <=> ~HasOuterArticle(normResult[1])
        /\ Truthy(normName) =>
              normResult[1] \in DOMAIN BuildProductMapping(<< >>, <<<<normName, nWings>>>>)

\* C29 happens: a name with punctuation, spaces and capitals is normalized to
\* a form that normalizing leaves alone.
C29_Witness ==
    /\ normResult # << >>
    /\ normName # null
    /\ Len(normName) = MaxNameLen
    /\ normResult[1] # normName
    /\ Len(normResult[1]) = 3
    /\ normalizeProductName(normResult[1]) = normResult[1]

\* the tokens of a name, those of one character among them
AllTokens(name) == Range(split(normalizeProductName(name)))

\* two scores are the same number
SameScore(a, b) == a.num * b.den = b.num * a.den

\* C30: wordsSimilar gives the same answer for two tokens in either order, and
\* calculateSimilarity the same score for two names in either order.
C30_Symmetric ==
    simScore # << >> =>
        /\ \A a \in AllTokens(productName) : \A b \in AllTokens(simReference) :
              wordsSimilar(a, b) = wordsSimilar(b, a)
        /\ SameScore(simScore[1], calculateSimilarity(simReference, productName))

\* C30 happens: two names of different forms, one with a token that contains
\* a token of the other, score the same in both orders, above 0 and below 100.
C30_Witness ==
    /\ simScore # << >>
    /\ ~SameNormalizedForm
    /\ \E a \in AllTokens(productName) : \E b \in AllTokens(simReference) :
          /\ Len(a) < Len(b) /\ StripTrailingS(b) # a /\ OccursIn(a, b)
          /\ wordsSimilar(a, b)
    /\ SameScore(simScore[1], calculateSimilarity(simReference, productName))
    /\ ScoreGT(simScore[1], Percent(0)) /\ ScoreGT(Percent(100), simScore[1])

-----------------------------------------------------------------------------
(* The results and the grand totals (SpecUpload, SpecBreakdown) *)

\* C23: once the per-file loop has run, results holds one entry per uploaded
\* file, in upload order, each a breakdown or an error, and summary.totalFiles
\* is the number of uploaded files.
C23_OneEntryPerFile ==
    (upPc = "done" /\ files > 0 /\ apiKey) =>
        /\ Len(results) = files
        /\ \A f \in DOMAIN results :
              /\ results[f].filename = f
              /\ (results[f].breakdown # << >>) # (results[f].error # << >>)
        /\ upResponse[1].summary.totalFiles = files

\* the categories processCostBreakdown has a branch for
RecognizedCategories == NamedCategories \cup {"ENTERTAINMENT"}

\* the sum of the totals of the line items of a recognized category
RecognizedSum ==
    SumSeq([i \in DOMAIN ItemsOf(analysisResult) |->
               IF ItemsOf(analysisResult)[i].category \in RecognizedCategories
               THEN Amount(ItemsOf(analysisResult)[i]) ELSE 0])

\* the preloaded total, 0 when there is none
PreloadedOrZero ==
    IF CarriesTotal THEN analysisResult.preloadedDrinks[1].total[1] ELSE 0

\* no total of a line item is negative, nor the preloaded total, and the
\* result gives no totals directly
NonNegativeInputs ==
    /\ \A i \in DOMAIN ItemsOf(analysisResult) : Amount(ItemsOf(analysisResult)[i]) >= 0
    /\ PreloadedOrZero >= 0
    /\ analysisResult.totals = << >>

\* C24 as stated: for line items with non-negative totals and any preloaded
\* total, the grand total is the sum of the totals of the line items of a
\* recognized category (rounded to cents).
C24_AsStated ==
    (breakdown # << >> /\ NonNegativeInputs) =>
        breakdown[1].grandTotal = toFixed2(RecognizedSum)

\* C24, amended: for such inputs the grand total is that sum when the
\* preloaded total p is at most the food total F of the line items, and the sum
\* plus p - F when p is more than F (rounded to cents).
C24_MovesUnlessClamped ==
    (breakdown # << >> /\ NonNegativeInputs) =>
        breakdown[1].grandTotal =
            toFixed2(RecognizedSum + Max(0, PreloadedOrZero - SumOfCategory("FOOD")))

\* C24 happens: food of 0.30 and karaoke of 0.30 with preloaded drinks of 0.50
\* give food 0, drinks 0.50 and a grand total of 0.80, 0.20 more than the items.
C24_Witness ==
    /\ breakdown # << >>
    /\ NonNegativeInputs
    /\ SumOfCategory("FOOD") = 30 * Cent
    /\ RecognizedSum = 60 * Cent
    /\ PreloadedOrZero = 50 * Cent
    /\ breakdown[1].food = 0
    /\ breakdown[1].drinks = 50 * Cent
    /\ breakdown[1].grandTotal = 80 * Cent

\* the four figures whose sum C25 is about
SumOfCombined(ct) == ct.food + ct.drinks + ct.entertainment + ct.bookingFee

\* C25 as stated: in every response the combined grand total is the sum of the
\* combined food, drinks, entertainment and booking fee.
C25_AsStated ==
    Answered =>
        upResponse[1].combinedTotals.grandTotal = SumOfCombined(upResponse[1].combinedTotals)

\* every amount of the analysis a has at most 2 decimal digits
WholeCents(a) ==
    /\ \A i \in DOMAIN ItemsOf(a) : TwoDecimals(Amount(ItemsOf(a)[i]))
    /\ a.preloadedDrinks # << >> =>
          AbsentOrTwoDecimals(a.preloadedDrinks[1].total)
    /\ a.totals # << >> =>
          /\ AbsentOrTwoDecimals(a.totals[1].food)
          /\ AbsentOrTwoDecimals(a.totals[1].drinks)
          /\ AbsentOrTwoDecimals(a.totals[1].bookingFee)

\* C25, amended: the combined grand total is the sum of the combined food,
\* drinks, entertainment and booking fee when every amount of the analyses
\* folded has at most 2 decimal digits.
C25_GrandTotalOfWholeCents ==
    (Answered /\ \A i \in DOMAIN Folded(results) : WholeCents(Folded(results)[i].rawAnalysis[1]))
    => upResponse[1].combinedTotals.grandTotal = SumOfCombined(upResponse[1].combinedTotals)

\* C25 happens: two documents in whole cents, one of them with food, preloaded
\* drinks, bowling and a booking fee, are folded and the four figures add up to
\* the grand total.
C25_Witness ==
    /\ Answered
    /\ Len(Folded(results)) = 2
    /\ \A i \in DOMAIN Folded(results) : WholeCents(Folded(results)[i].rawAnalysis[1])
    /\ upResponse[1].combinedTotals.food = 27 * Cent
    /\ upResponse[1].combinedTotals.drinks = 10 * Cent
    /\ upResponse[1].combinedTotals.entertainment = 60 * Cent
    /\ upResponse[1].combinedTotals.bookingFee = 30 * Cent
    /\ upResponse[1].combinedTotals.grandTotal = 127 * Cent

-----------------------------------------------------------------------------
(* The products, the statistics and the temporary files of the handlers
   (SpecVendor, SpecUpload) *)

\* C26: every productName of the products of the response is an entry of the
\* reference product list.
C26_ProductsAreReferenceProducts ==
    vcResponse # << >> =>
        \A i \in DOMAIN vcResponse[1].products :
            vcResponse[1].products[i].productName \in Range(referenceProducts)

\* the places of a set of observations, in input order
RECURSIVE InInputOrder(_)
InInputOrder(places) ==
    IF places = {} THEN << >>
    ELSE <<MinOf(places)>> \o InInputOrder(places \ {MinOf(places)})

\* the observations at the places of a set, in input order, each turned into an
\* entry by the operator entry
EntriesInOrder(places, entry(_)) ==
    [k \in DOMAIN InInputOrder(places) |-> entry(allExtractedData[InInputOrder(places)[k]])]

\* the sum of the lengths of the price histories of a set of products
RECURSIVE SumOfLengths(_)
SumOfLengths(products) ==
    IF products = {} THEN 0
    ELSE Len(productsMap[CHOOSE q \in products : TRUE])
         + SumOfLengths(products \ {CHOOSE q \in products : TRUE})

\* C27: after the matching loop matched = mapped + fuzzyMatched, matched +
\* unmatched is the number of observations, the lengths of the price histories
\* sum to matched, and every observation is in exactly one place: in the price
\* history of the product it was grouped under, or in the unmatched list.
C27_MatchStatistics ==
    vcPc \in {"matched", "done"} =>
        /\ matchStats.matched = matchStats.mapped + matchStats.fuzzyMatched
        /\ matchStats.matched + matchStats.unmatched = Len(allExtractedData)
        /\ SumOfLengths(DOMAIN productsMap) = matchStats.matched
        /\ Len(unmatchedItems) = matchStats.unmatched
        /\ DOMAIN productsMap = {matchLog[i] : i \in DOMAIN matchLog} \ {null}
        /\ \A q \in DOMAIN productsMap :
              productsMap[q] = EntriesInOrder(ObservationsOf(q), AsEntry)
        /\ unmatchedItems = EntriesInOrder(UnmatchedObservations, AsUnmatched)

\* C27 happens: of two observations one is resolved by the mapping sheet and
\* one by matchProductName, under two different products.
C27_Witness ==
    /\ vcPc = "matched"
    /\ Len(allExtractedData) = 2
    /\ matchStats = [matched |-> 2, unmatched |-> 0, mapped |-> 1, fuzzyMatched |-> 1]
    /\ Cardinality(DOMAIN productsMap) = 2

\* C28: when a handler has sent its response, fs.unlink has been called on
\* the temporary file of every uploaded document.
C28_TemporaryFilesDeleted ==
    upResponse # << >> => unlinked = 1..files

-----------------------------------------------------------------------------
(* identifyExcelColumns: the columns of a sheet (SpecColumns) *)

\* the most headers a sheet has
MaxHeaders == 2

hItemName == <<"I", "t", "e", "m", " ", "N", "a", "m", "e">>
hUnitPrice == <<"U", "n", "i", "t", " ", "P", "r", "i", "c", "e">>
hOrderDate == <<"O", "r", "d", "e", "r", " ", "D", "a", "t", "e">>
hItemCost == <<"I", "t", "e", "m", " ", "C", "o", "s", "t">>
hPRODUCT == <<"P", "R", "O", "D", "U", "C", "T">>
hQty == <<"Q", "t", "y">>

\* the headers readExcelFile returns: the text of a cell of row 1, '' for an
\* empty one
HeaderNames == {hItemName, hUnitPrice, hOrderDate, hItemCost, hPRODUCT, hQty, << >>}

\* the keywords of the fallback, per role
ProductKeywords ==
    {<<"p", "r", "o", "d", "u", "c", "t">>,
     <<"d", "e", "s", "c", "r", "i", "p", "t", "i", "o", "n">>,
     <<"i", "t", "e", "m">>, <<"n", "a", "m", "e">>}
PriceKeywords == {<<"p", "r", "i", "c", "e">>, <<"u", "n", "i", "t">>, <<"c", "o", "s", "t">>}
DateKeywords == {<<"d", "a", "t", "e">>, <<"o", "r", "d", "e", "r">>}

\* headers.find((h, i) => lowerHeaders[i].includes(k1) || ...) || null, with
\* the header that comes last in place of the one that comes first
FindHeaderLast(headers, keywords) ==
    IF {i \in DOMAIN headers : \E k \in keywords : includes(toLowerCase(headers[i]), k)} = {}
    THEN null
    ELSE headers[MaxOf({i \in DOMAIN headers :
                           \E k \in keywords : includes(toLowerCase(headers[i]), k)})]

\* headers.find((h, i) => lowerHeaders[i].includes(k1) || ...) || null
FindHeader(headers, keywords) ==
    FirstOf(headers, {i \in DOMAIN headers :
                         \E k \in keywords : includes(toLowerCase(headers[i]), k)})

\* the object the catch block returns
FallbackColumns(headers) ==
    [productDescriptionColumn |-> FindHeader(headers, ProductKeywords),
     unitPriceColumn |-> FindHeader(headers, PriceKeywords),
     dateColumn |-> FindHeader(headers, DateKeywords)]

\* What the service does with a request: the call rejects, the response has no
\* choices[0], its content is no JSON text, or its content is the JSON text of
\* an object (response_format json_object) with the three fields.
ServiceFailures == {[kind |-> "rejects"], [kind |-> "noChoices"], [kind |-> "notJson"]}
ServiceAnswers(headers) ==
    {[kind |-> "json", value |-> v] :
        v \in [productDescriptionColumn : Range(headers) \cup {null},
               unitPriceColumn : Range(headers) \cup {null},
               dateColumn : {null}]}

\* identifyExcelColumns(headers, sampleData)
identifyExcelColumns(headers, outcome) ==
    IF outcome.kind = "json" THEN outcome.value ELSE FallbackColumns(headers)

InitColumns ==
    /\ sheetHeaders \in BoundedSeq(HeaderNames, MaxHeaders)
    /\ serviceOutcome \in ServiceFailures \cup ServiceAnswers(sheetHeaders)
    /\ identified = << >>
    /\ referenceProducts = << >>
    /\ MatcherIdle /\ BreakdownIdle /\ UploadIdle /\ VendorIdle /\ RowIdle

CallIdentifyExcelColumns ==
    /\ identified = << >>
    /\ identified' = <<identifyExcelColumns(sheetHeaders, serviceOutcome)>>
    /\ UNCHANGED <<sheetHeaders, serviceOutcome, referenceProducts, matcherVars, breakdownVars,
                   uploadVars, vendorVars, rowVars>>

NextColumns == CallIdentifyExcelColumns

SpecColumns == InitColumns /\ [][NextColumns]_vars

\* the headers whose lower-cased name contains one of the keywords
HeadersWith(keywords) ==
    {i \in DOMAIN sheetHeaders :
        \E k \in keywords :
            \E at \in 1..Len(sheetHeaders[i]) :
                /\ at + Len(k) - 1 <= Len(sheetHeaders[i])
                /\ \A j \in 1..Len(k) : toLowerCaseChar(sheetHeaders[i][at + j - 1]) = k[j]}

\* column is the first of the headers with a keyword, or null when there is none
FirstWithOrNull(column, keywords) ==
    IF HeadersWith(keywords) = {} THEN column = null
    ELSE column = sheetHeaders[MinOf(HeadersWith(keywords))]

\* C22: a failure of the column-identification service does not come out of
\* identifyExcelColumns: the call returns, and when the service failed it
\* returns for each role the first header, in header order, whose lower-cased
\* name contains one of the role's keywords, or null when no header does.
C22_FallbackOnFailure ==
    (identified # << >> /\ serviceOutcome \in ServiceFailures) =>
        /\ FirstWithOrNull(identified[1].productDescriptionColumn, ProductKeywords)
        /\ FirstWithOrNull(identified[1].unitPriceColumn, PriceKeywords)
        /\ FirstWithOrNull(identified[1].dateColumn, DateKeywords)

\* C22 happens: the service rejects the call on the sheet with the headers
\* "PRODUCT" and "Item Cost"; the first is taken for the product although the
\* second has a keyword of the role too, the second for the price, none for
\* the date.
C22_Witness ==
    /\ serviceOutcome = [kind |-> "rejects"]
    /\ sheetHeaders = <<hPRODUCT, hItemCost>>
    /\ identified = <<[productDescriptionColumn |-> hPRODUCT, unitPriceColumn |-> hItemCost,
                       dateColumn |-> null]>>

-----------------------------------------------------------------------------
(* extractProductDataFromExcel: the forEach callback on one row (SpecRow) *)

\* the most characters a price cell has
MaxPriceLen == 3

EmptyCell == [kind |-> "empty", text |-> << >>, number |-> 0]
TextCell(s) == [kind |-> "text", text |-> s, number |-> 0]
NumberCell(n) == [kind |-> "number", text |-> << >>, number |-> n]

\* Number.prototype.toString of an integer
RECURSIVE DigitsOf(_)
DigitsOf(n) ==
    IF n < 10 THEN <<DigitChars[n + 1]>>
    ELSE DigitsOf(n \div 10) \o <<DigitChars[(n % 10) + 1]>>
NumberToString(n) == IF n < 0 THEN <<"-">> \o DigitsOf(0 - n) ELSE DigitsOf(n)

\* row[column]?.toString().trim(): undefined, here null, for an empty cell
CellString(cell) ==
    IF cell.kind = "empty" THEN null
    ELSE IF cell.kind = "number" THEN NumberToString(cell.number)
    ELSE trim(cell.text)

\* priceStr.replace(/[^0-9.-]/g, '')
StripPrice(s) == SelectSeq(s, LAMBDA c : c \in Range(DigitChars) \cup {".", "-"})

\* the number of digits s begins with
DigitRun(s) == MinOf({i \in 1..Len(s) : s[i] \notin Range(DigitChars)} \cup {Len(s) + 1}) - 1

\* the number a string of digits denotes
RECURSIVE DigitsValue(_)
DigitsValue(s) ==
    IF s = << >> THEN 0
    ELSE 10 * DigitsValue(SubSeq(s, 1, Len(s) - 1))
         + (CHOOSE d \in 0..9 : DigitChars[d + 1] = s[Len(s)])

RECURSIVE PowerOfTen(_)
PowerOfTen(k) == IF k = 0 THEN 1 ELSE 10 * PowerOfTen(k - 1)

\* the digits after the decimal point that follows the first whole digits of
\* body: none when no point follows
FractionDigits(body, whole) ==
    IF whole < Len(body) /\ body[whole + 1] = "."
    THEN SubSeq(body, whole + 2, whole + 1 + DigitRun(SubSeq(body, whole + 2, Len(body))))
    ELSE << >>

\* the value of an unsigned decimal with these whole and fraction digits:
\* << >> for NaN, else <<num / den>>
DecimalOf(wholeDigits, fractionDigits, sign) ==
    IF wholeDigits = << >> /\ fractionDigits = << >> THEN << >>
    ELSE <<[num |-> sign * DigitsValue(wholeDigits \o fractionDigits),
            den |-> PowerOfTen(Len(fractionDigits))]>>

UnsignedFloat(body, sign) ==
    DecimalOf(SubSeq(body, 1, DigitRun(body)), FractionDigits(body, DigitRun(body)), sign)

\* parseFloat of a string of digits, points and minus signs: the longest
\* prefix that is a decimal literal, NaN when there is none
parseFloat(s) ==
    IF s # << >> /\ s[1] = "-" THEN UnsignedFloat(Tail(s), 0 - 1) ELSE UnsignedFloat(s, 1)

\* a date-only ISO text YYYY-MM-DD with a month 01..12 and a day 01..28
IsIsoDate(s) ==
    /\ Len(s) = 10
    /\ s[5] = "-" /\ s[8] = "-"
    /\ \A i \in {1, 2, 3, 4, 6, 7, 9, 10} : s[i] \in Range(DigitChars)
    /\ DigitsValue(SubSeq(s, 6, 7)) \in 1..12
    /\ DigitsValue(SubSeq(s, 9, 10)) \in 1..28

\* new Date(dateStr) followed by toISOString().split('T')[0], on the date
\* texts of DateCells: << >> for an Invalid Date, else <<YYYY-MM-DD>>
ParseDate(dateStr) == IF IsIsoDate(dateStr) THEN <<dateStr>> ELSE << >>

\* let date = null; if (dateStr) { ... }
DateOf(dateStr) ==
    IF Truthy(dateStr) /\ ParseDate(dateStr) # << >> THEN ParseDate(dateStr)[1] ELSE null

\* date || new Date().toISOString().split('T')[0]
DateOr(date, now) == IF Truthy(date) THEN date ELSE now

SheetFileName == "vendor.xlsx"

\* the object pushed onto extractedData
Observation(row, price, date) ==
    [productName |-> CellString(row.name), unitPrice |-> price[1], date |-> date,
     sourceFile |-> SheetFileName, rawRow |-> row]

\* the callback with the test !isNaN(price) in place of
\* !isNaN(price) && price > 0
ExtractRowAnyPrice(extracted, row, dateStr, now) ==
    IF /\ Truthy(CellString(row.name)) /\ Truthy(CellString(row.price))
       /\ parseFloat(StripPrice(CellString(row.price))) # << >>
    THEN Append(extracted,
                Observation(row, parseFloat(StripPrice(CellString(row.price))),
                            DateOr(DateOf(dateStr), now)))
    ELSE extracted

\* the callback of excelData.data.forEach
ExtractRow(extracted, row, dateStr, now) ==
    IF /\ Truthy(CellString(row.name)) /\ Truthy(CellString(row.price))
       /\ parseFloat(StripPrice(CellString(row.price))) # << >>
       /\ parseFloat(StripPrice(CellString(row.price)))[1].num > 0
    THEN Append(extracted,
                Observation(row, parseFloat(StripPrice(CellString(row.price))),
                            DateOr(DateOf(dateStr), now)))
    ELSE extracted

\* columnMapping.dateColumn ? row[columnMapping.dateColumn]?.toString().trim() : null
DateString(hasDateColumn, row) == IF hasDateColumn THEN CellString(row.date) ELSE null

dMarch5 == <<"2", "0", "2", "4", "-", "0", "3", "-", "0", "5">>
dMarch7 == <<"2", "0", "2", "4", "-", "0", "3", "-", "0", "7">>

NameCells == {EmptyCell, TextCell(<<" ", " ">>), TextCell(<<" ">> \o nWings \o <<" ">>),
              NumberCell(7)}
PriceChars == {"$", "4", "0", ".", "-"}
PriceCells ==
    {EmptyCell, NumberCell(0 - 2), NumberCell(0), NumberCell(3)}
    \cup {TextCell(s) : s \in BoundedSeq(PriceChars, MaxPriceLen)}
DateCells == {EmptyCell, TextCell(<< >>), TextCell(<<"n", "/", "a">>), TextCell(dMarch5)}
Days == {dMarch5, dMarch7}

InitRow ==
    /\ dateColumn \in BOOLEAN
    /\ excelRow \in [name : NameCells, price : PriceCells, date : DateCells]
    /\ today \in Days
    /\ extractedData = << >>
    /\ referenceProducts = << >>
    /\ MatcherIdle /\ BreakdownIdle /\ UploadIdle /\ VendorIdle /\ ColumnsIdle

CallExtractRow ==
    /\ extractedData = << >>
    /\ extractedData' = <<ExtractRow(<< >>, excelRow, DateString(dateColumn, excelRow), today)>>
    /\ UNCHANGED <<dateColumn, excelRow, today, referenceProducts, matcherVars, breakdownVars,
                   uploadVars, vendorVars, columnVars>>

NextRow == CallExtractRow

SpecRow == InitRow /\ [][NextRow]_vars

\* the product name of the row is missing: the cell is empty or holds white
\* space only
NameMissing ==
    \/ excelRow.name.kind = "empty"
    \/ excelRow.name.kind = "text" /\ \A i \in DOMAIN excelRow.name.text : IsSpace(excelRow.name.text[i])

\* the text of the price cell
PriceText ==
    IF excelRow.price.kind = "number" THEN NumberToString(excelRow.price.number)
    ELSE excelRow.price.text

\* the price of the row is numeric: a number can be read from the digits,
\* points and minus signs of the cell
PriceNumeric == excelRow.price.kind # "empty" /\ parseFloat(StripPrice(PriceText)) # << >>
PricePositive == PriceNumeric /\ parseFloat(StripPrice(PriceText))[1].num > 0

\* the date of the row is missing or cannot be parsed
DateMissingOrUnparseable ==
    \/ ~dateColumn
    \/ excelRow.date.kind = "empty"
    \/ ~IsIsoDate(trim(excelRow.date.text))

\* exactly one observation came out of the row, dated with the current day
OneObservationDatedToday ==
    /\ Len(extractedData[1]) = 1
    /\ extractedData[1][1].date = today

\* C21 as stated: no observation for a row with a missing product name or a
\* non-numeric price; an observation dated today for a row with a product
\* name and a numeric price whose date is missing or unparseable.
C21_AsStated ==
    extractedData # << >> =>
        /\ (NameMissing \/ ~PriceNumeric) => extractedData[1] = << >>
        /\ (~NameMissing /\ PriceNumeric /\ DateMissingOrUnparseable) => OneObservationDatedToday

\* C21: no observation for a row with a missing product name or a non-numeric
\* price, nor for one whose numeric price is zero or negative; an observation
\* dated today for a row with a product name and a numeric price above zero
\* whose date is missing or unparseable.
C21_PositivePriceOnly ==
    extractedData # << >> =>
        /\ (NameMissing \/ ~PricePositive) => extractedData[1] = << >>
        /\ (~NameMissing /\ PricePositive /\ DateMissingOrUnparseable) => OneObservationDatedToday

\* C21 happens: the row " Wings ", "$4", "n/a" of a sheet with a date column
\* yields one observation "Wings" at 4, dated today.
C21_Witness ==
    /\ dateColumn
    /\ excelRow = [name |-> TextCell(<<" ">> \o nWings \o <<" ">>),
                   price |-> TextCell(<<"$", "4">>),
                   date |-> TextCell(<<"n", "/", "a">>)]
    /\ extractedData # << >>
    /\ Len(extractedData[1]) = 1
    /\ extractedData[1][1].productName = nWings
    /\ extractedData[1][1].unitPrice = [num |-> 4, den |-> 1]
    /\ extractedData[1][1].date = today

=============================================================================
